---- MODULE Spec2Model ----
(***************************************************************************)
(* Pest/disease lookup service (pest_disease_lookup_service.py) and the    *)
(* disease identification orchestrator (disease_identification_service.py, *)
(* main.py).  Strings are sequences of one-character strings; confidences  *)
(* are exact fractions <<numerator, denominator>>.                         *)
(***************************************************************************)
EXTENDS Integers, Sequences, FiniteSets, TLC

VARIABLES database, pc, op, args, matches, recs, primary_client, api_result,
          fallback_result, lookup_fails, collected, result, primary_calls,
          fallback_calls, response, database_file, analysis, rate_limit, clock,
          retry_count, http_attempts, last_outcome, client_result, client_calls,
          upload, stage, http_error, soil_types_data, predict_request,
          predict_response, all_matches, tasks, responses, lookup_request,
          local_match, suggestions_given, parsed, lru_cache, soil_call,
          _disease_service_instance, constructed, handlers

\* the PlantIdClient object, the clock it reads and the locals of one call
client_vars ==
  <<rate_limit, clock, retry_count, http_attempts, last_outcome, client_result, client_calls>>

\* the /identify handler: the uploaded file, the stage reached, the
\* HTTPException raised
identify_vars == <<upload, stage, http_error>>

\* /predict: soil_types.json as loaded, the request and the response
predict_vars == <<soil_types_data, predict_request, predict_response>>

\* one call of _find_local_match: its arguments and what it returned
find_vars == <<lookup_request, local_match>>

\* one call of _parse_plant_id_suggestions: its argument and what it returned
parse_vars == <<suggestions_given, parsed>>

\* the lru_cache of get_soil_type_data and of get_compatibility_score, and the
\* last call of one of them with what it returned
cache_vars == <<lru_cache, soil_call>>

\* the global _disease_service_instance, the DiseaseIdentificationService
\* objects constructed so far, and the handlers that are inside
\* get_disease_identification_service or have returned from it
singleton_vars == <<_disease_service_instance, constructed, handlers>>

\* what lives at module level in the service process
module_vars == <<find_vars, parse_vars, cache_vars, singleton_vars>>

endpoint_vars == <<identify_vars, predict_vars, module_vars>>

\* identify_disease calls in flight on one PlantIdClient, and the HTTP responses
\* received since each counter of its limiter was last reset
concurrent_vars == <<tasks, responses>>

\* the services behind the endpoints
backend_vars ==
  <<database, pc, op, args, matches, recs, primary_client, api_result,
    fallback_result, lookup_fails, collected, result, primary_calls,
    fallback_calls, response, database_file, analysis, client_vars, concurrent_vars,
    all_matches>>

vars == <<database, pc, op, args, matches, recs, primary_client, api_result,
          fallback_result, lookup_fails, collected, result, primary_calls,
          fallback_calls, response, database_file, analysis, client_vars,
          endpoint_vars, concurrent_vars, all_matches>>

(***************************************************************************)
(* Bounds of the model.                                                    *)
(***************************************************************************)
MaxLen == 2

MaxEntries == 2

MaxSymptoms == 2

MaxSuggestions == 2

MaxTreatments == 3

MaxCalls == 2

(***************************************************************************)
(* Strings: str.lower(), str.strip(), the `in` substring test.             *)
(***************************************************************************)
Alphabet == {"a", "b", "A", " "}

LowerOf ==
  ("A" :> "a") @@ ("B" :> "b") @@ ("C" :> "c") @@ ("D" :> "d") @@ ("E" :> "e") @@
  ("F" :> "f") @@ ("G" :> "g") @@ ("H" :> "h") @@ ("I" :> "i") @@ ("J" :> "j") @@
  ("K" :> "k") @@ ("L" :> "l") @@ ("M" :> "m") @@ ("N" :> "n") @@ ("O" :> "o") @@
  ("P" :> "p") @@ ("Q" :> "q") @@ ("R" :> "r") @@ ("S" :> "s") @@ ("T" :> "t") @@
  ("U" :> "u") @@ ("V" :> "v") @@ ("W" :> "w") @@ ("X" :> "x") @@ ("Y" :> "y") @@
  ("Z" :> "z")

LowerChar(c) == IF c \in DOMAIN LowerOf THEN LowerOf[c] ELSE c

Lower(s) == [i \in 1..Len(s) |-> LowerChar(s[i])]

RECURSIVE LStrip(_)
LStrip(s) == IF s # <<>> /\ Head(s) = " " THEN LStrip(Tail(s)) ELSE s

RECURSIVE RStrip(_)
RStrip(s) ==
  IF s # <<>> /\ s[Len(s)] = " " THEN RStrip(SubSeq(s, 1, Len(s) - 1)) ELSE s

Strip(s) == RStrip(LStrip(s))

\* Python: sub in s
IsSubstring(sub, s) ==
  \E i \in 0..(Len(s) - Len(sub)) : SubSeq(s, i + 1, i + Len(sub)) = sub

RECURSIVE StringsUpTo(_)
StringsUpTo(n) ==
  IF n = 0 THEN {<<>>}
  ELSE LET shorter == StringsUpTo(n - 1)
       IN shorter \cup {Append(s, c) : s \in {t \in shorter : Len(t) = n - 1}, c \in Alphabet}

(***************************************************************************)
(* difflib.SequenceMatcher(None, a, b).ratio() for strings shorter than    *)
(* the autojunk limit: the longest matching block (earliest in a, then     *)
(* earliest in b), then the same to its left and to its right.             *)
(***************************************************************************)
RECURSIVE RunLength(_, _, _, _, _, _)
RunLength(a, b, i, j, ahi, bhi) ==
  IF i <= ahi /\ j <= bhi /\ a[i] = b[j]
  THEN 1 + RunLength(a, b, i + 1, j + 1, ahi, bhi)
  ELSE 0

\* <<i, j, k>> with a[i..i+k-1] = b[j..j+k-1] inside a[alo..ahi], b[blo..bhi]
FindLongestMatch(a, b, alo, ahi, blo, bhi) ==
  LET starts == {<<i, j>> \in (alo..ahi) \X (blo..bhi) : a[i] = b[j]}
      len(p) == RunLength(a, b, p[1], p[2], ahi, bhi)
  IN IF starts = {} THEN <<alo, blo, 0>>
     ELSE LET best == CHOOSE p \in starts :
                        \A q \in starts :
                          \/ len(p) > len(q)
                          \/ /\ len(p) = len(q)
                             /\ \/ p[1] < q[1]
                                \/ p[1] = q[1] /\ p[2] <= q[2]
          IN <<best[1], best[2], len(best)>>

RECURSIVE MatchingCount(_, _, _, _, _, _)
MatchingCount(a, b, alo, ahi, blo, bhi) ==
  IF alo > ahi \/ blo > bhi THEN 0
  ELSE LET m == FindLongestMatch(a, b, alo, ahi, blo, bhi)
       IN IF m[3] = 0 THEN 0
          ELSE m[3] + MatchingCount(a, b, alo, m[1] - 1, blo, m[2] - 1)
                    + MatchingCount(a, b, m[1] + m[3], ahi, m[2] + m[3], bhi)

\* variant: the matched characters are not divided by the total length
MatchedCharacters(matched, length) == <<2 * matched, 1>>

\* 2.0 * matches / (len(a) + len(b)), and 1.0 for two empty strings
_calculate_ratio(matched, length) ==
  IF length = 0 THEN <<1, 1>> ELSE <<2 * matched, length>>

\* the value of an expression that is computed once and then named
Only(S) == CHOOSE x \in S : TRUE

\* SequenceMatcher(None, a, b).ratio()
Ratio(a, b) ==
  Only({_calculate_ratio(MatchingCount(x, y, 1, Len(x), 1, Len(y)), Len(x) + Len(y)) :
          x \in {a}, y \in {b}})

(***************************************************************************)
(* Fractions.                                                              *)
(***************************************************************************)
Geq(x, y) == x[1] * y[2] >= y[1] * x[2]

Gt(x, y) == x[1] * y[2] > y[1] * x[2]

Eq(x, y) == x[1] * y[2] = y[1] * x[2]

Zero == <<0, 1>>

One == <<1, 1>>

(***************************************************************************)
(* Knowledge base entries.  An entry is a JSON object: `has` is the set of *)
(* keys present, `nulls` (treatment records) the keys whose value is null. *)
(***************************************************************************)
Get(d, f, default) == IF f \in d.has THEN d[f] ELSE default

NoTreatment ==
  [has |-> {}, nulls |-> {}, method |-> "", treatment |-> "", application |-> "",
   timing |-> "", safety_notes |-> "", priority |-> 0, effectiveness |-> Zero]

NoEntry ==
  [has |-> {}, name |-> <<>>, common_name |-> <<>>, scientific_name |-> <<>>,
   alternative_names |-> <<>>, category |-> "", symptoms |-> <<>>,
   affected_crops |-> <<>>, treatments |-> <<>>, prevention |-> <<>>,
   description |-> "", images |-> <<>>]

TreatmentPool ==
  << [NoTreatment EXCEPT !.has = {"method", "treatment", "effectiveness"},
        !.method = "Organic", !.treatment = "neem", !.effectiveness = <<9, 10>>],
     [NoTreatment EXCEPT !.has = {"method", "treatment", "priority"},
        !.method = "chemical", !.treatment = "spray", !.priority = 1],
     [NoTreatment EXCEPT !.has = {"method", "treatment", "priority", "effectiveness"},
        !.nulls = {"priority", "effectiveness"},
        !.method = "cultural", !.treatment = "rotate"],
     [NoTreatment EXCEPT !.has = {"method", "treatment", "priority", "effectiveness"},
        !.nulls = {"priority"},
        !.method = "chemical", !.treatment = "dust", !.effectiveness = <<1, 2>>],
     [NoTreatment EXCEPT !.has = {"treatment", "priority", "effectiveness"},
        !.treatment = "prune", !.priority = 3, !.effectiveness = One],
     [NoTreatment EXCEPT !.has = {"method", "treatment", "priority", "effectiveness",
                                  "application", "timing", "safety_notes"},
        !.method = "organic", !.treatment = "soap", !.priority = 2,
        !.effectiveness = <<9, 10>>, !.application = "spray leaves",
        !.timing = "weekly", !.safety_notes = "gloves"] >>

EntryPool ==
  << [key |-> "aphids",
      entry |-> [NoEntry EXCEPT
        !.has = {"name", "scientific_name", "alternative_names", "category", "symptoms",
                 "affected_crops", "treatments", "prevention", "description", "images"},
        !.name = <<"A", "b">>, !.scientific_name = <<"b", "a">>,
        !.alternative_names = << <<"B">> >>, !.category = "pest",
        !.symptoms = << <<"a", "b">>, <<"b", " ", "a">> >>,
        !.affected_crops = << <<"T", "o">> >>,
        !.treatments = <<TreatmentPool[2], TreatmentPool[1], TreatmentPool[6]>>,
        !.prevention = <<"inspect", "rotate crops">>,
        !.description = "sap sucking insect", !.images = <<"aphids.jpg">>]],
     [key |-> "blight",
      entry |-> [NoEntry EXCEPT
        !.has = {"name", "common_name", "category", "symptoms", "affected_crops",
                 "prevention"},
        !.name = <<"a", "B">>, !.common_name = <<"b", "b">>, !.category = "disease",
        !.symptoms = << <<"A", "b">>, <<"a", "a">>, <<"b", "a", "b">> >>,
        !.affected_crops = << <<"A", "l", "l">> >>,
        !.prevention = <<"rotate crops", "rotate crops", "dry leaves">>]],
     [key |-> "mildew",
      entry |-> [NoEntry EXCEPT
        !.has = {"name", "scientific_name", "category", "treatments", "affected_crops"},
        !.name = <<"a", " ", "b">>, !.scientific_name = <<"A", "a">>,
        !.category = "disease", !.affected_crops = << <<"c">> >>,
        !.treatments = <<>>]],
     [key |-> "rust",
      entry |-> [NoEntry EXCEPT
        !.has = {"common_name", "symptoms", "treatments"},
        !.common_name = <<"b", "a", " ">>,
        !.symptoms = << <<"a", "b", " ">>, <<"b">> >>,
        !.treatments = <<TreatmentPool[3], TreatmentPool[4]>>]],
     [key |-> "chlorosis",
      entry |-> [NoEntry EXCEPT
        !.has = {"name", "alternative_names", "category", "symptoms", "treatments",
                 "prevention"},
        !.name = <<"b", "b">>, !.alternative_names = << <<"a", "b", " ">>, <<"A">> >>,
        !.category = "deficiency", !.symptoms = << <<"A", "a">> >>,
        !.treatments = <<TreatmentPool[5], TreatmentPool[1]>>,
        !.prevention = <<>>]] >>

\* the sequences of at most n distinct indexes of EntryPool
RECURSIVE IndexSeqs(_)
IndexSeqs(n) ==
  IF n = 0 THEN {<<>>}
  ELSE LET shorter == IndexSeqs(n - 1)
       IN shorter \cup
          {Append(s, i) : s \in {t \in shorter : Len(t) = n - 1},
                          i \in 1..Len(EntryPool)}

Distinct(s) == \A i, j \in 1..Len(s) : i # j => s[i] # s[j]

ItemSeqs == {[i \in 1..Len(s) |-> EntryPool[s[i]]] : s \in {t \in IndexSeqs(MaxEntries) : Distinct(t)}}

IsPest(item) == Get(item.entry, "category", "") = "pest"

NotPest(item) == ~IsPest(item)

\* {"pests_diseases": {...}}
Combined(items) ==
  [has |-> {"pests_diseases"}, pests_diseases |-> items, pests |-> <<>>, diseases |-> <<>>]

\* {"pests": {...}, "diseases": {...}}
Separate(items) ==
  [has |-> {"pests", "diseases"}, pests_diseases |-> <<>>,
   pests |-> SelectSeq(items, IsPest), diseases |-> SelectSeq(items, NotPest)]

Databases == {Combined(items) : items \in ItemSeqs} \cup {Separate(items) : items \in ItemSeqs}

\* every (key, entry) of the database, in iteration order
AllItems(db) ==
  IF "pests_diseases" \in db.has THEN db.pests_diseases
  ELSE (IF "pests" \in db.has THEN db.pests ELSE <<>>)
       \o (IF "diseases" \in db.has THEN db.diseases ELSE <<>>)

(***************************************************************************)
(* PestDiseaseLookupService: name search.                                  *)
(***************************************************************************)
MatchResult(key, entry, confidence, match_type) ==
  [key |-> key, entry |-> entry, confidence |-> confidence, match_type |-> match_type]

LowerAll(names) == [i \in 1..Len(names) |-> Lower(names[i])]

NonEmpty(name) == name # <<>>

\* the lowered, non-empty names of the entry
NamesToCheck(entry) ==
  SelectSeq(
    << Lower(Get(entry, "name", <<>>)),
       Lower(Get(entry, "common_name", <<>>)),
       Lower(Get(entry, "scientific_name", <<>>)) >>
    \o (IF "alternative_names" \in entry.has THEN LowerAll(entry.alternative_names) ELSE <<>>),
    NonEmpty)

\* variant: only the name field is compared
ExactOnNameOnly(query, entry) == "name" \in entry.has /\ Lower(entry.name) = query

_is_exact_match(query, entry) ==
  \E i \in 1..Len(NamesToCheck(entry)) : NamesToCheck(entry)[i] = query

\* variant: a field that ties with the best so far replaces it
LastBest(best, checked, confidence, match_type) ==
  Only({IF checked /\ Geq(c, b.confidence)
        THEN [confidence |-> c, match_type |-> match_type]
        ELSE b : b \in {best}, c \in {confidence}})

\* one `if confidence > best_confidence` step of _calculate_fuzzy_match
Better(best, checked, confidence, match_type) ==
  Only({IF checked /\ Gt(c, b.confidence)
        THEN [confidence |-> c, match_type |-> match_type]
        ELSE b : b \in {best}, c \in {confidence}})

RECURSIVE BestAlternative(_, _, _)
BestAlternative(best, query, alts) ==
  IF alts = <<>> THEN best
  ELSE BestAlternative(
         Better(best, TRUE, Ratio(query, Lower(Head(alts))), "alternative"),
         query, Tail(alts))

\* [found |-> FALSE] stands for None
_calculate_fuzzy_match(query, entry) ==
  LET name == Lower(Get(entry, "name", <<>>))
      common_name == Lower(Get(entry, "common_name", <<>>))
      scientific_name == Lower(Get(entry, "scientific_name", <<>>))
      b0 == [confidence |-> Zero, match_type |-> ""]
      b1 == Better(b0, name # <<>>, Ratio(query, name), "fuzzy")
      b2 == Better(b1, common_name # <<>>, Ratio(query, common_name), "fuzzy")
      b3 == Better(b2, scientific_name # <<>>, Ratio(query, scientific_name), "scientific")
      b4 == IF "alternative_names" \in entry.has
            THEN BestAlternative(b3, query, entry.alternative_names)
            ELSE b3
  IN Only({IF Gt(best.confidence, Zero)
           THEN [found |-> TRUE, confidence |-> best.confidence,
                 match_type |-> best.match_type]
           ELSE [found |-> FALSE, confidence |-> Zero, match_type |-> ""] :
             best \in {b4}})

\* variant: the threshold is not applied
IncludedWhenFound(fuzzy_result, min_confidence) == fuzzy_result.found

\* `if fuzzy_result and fuzzy_result.confidence >= min_confidence`
Included(fuzzy_result, min_confidence) ==
  fuzzy_result.found /\ Geq(fuzzy_result.confidence, min_confidence)

\* the body of the loop over one mapping of the database
RECURSIVE NameMatches(_, _, _)
NameMatches(items, query_lower, min_confidence) ==
  IF items = <<>> THEN <<>>
  ELSE LET key == Head(items).key
           entry == Head(items).entry
           rest == NameMatches(Tail(items), query_lower, min_confidence)
       IN Only({IF _is_exact_match(query_lower, e)
                THEN <<MatchResult(key, e, One, "exact")>> \o rest
                ELSE IF Included(fuzzy_result, min_confidence)
                     THEN <<MatchResult(key, e, fuzzy_result.confidence,
                                        fuzzy_result.match_type)>> \o rest
                     ELSE rest :
                  e \in {entry},
                  fuzzy_result \in {_calculate_fuzzy_match(query_lower, entry)}})

\* list.sort(key=confidence, reverse=True): stable, highest confidence first
RECURSIVE InsertByConfidence(_, _)
InsertByConfidence(sorted, m) ==
  IF sorted = <<>> THEN <<m>>
  ELSE IF Gt(m.confidence, Head(sorted).confidence)
       THEN <<m>> \o sorted
       ELSE <<Head(sorted)>> \o InsertByConfidence(Tail(sorted), m)

RECURSIVE SortByConfidenceFrom(_, _)
SortByConfidenceFrom(sorted, pending) ==
  IF pending = <<>> THEN sorted
  ELSE SortByConfidenceFrom(InsertByConfidence(sorted, Head(pending)), Tail(pending))

\* variant: the results are left in visiting order
KeepOrder(results) == results

SortByConfidence(results) == SortByConfidenceFrom(<<>>, results)

NoCategory == "None"

Categories == {NoCategory, "pests", "diseases"}

\* variant: the filter value is compared as given
KeepS(category) == category

\* category.rstrip("s") on the categories above
RstripS(category) ==
  CASE category = "pests" -> "pest"
    [] category = "diseases" -> "disease"
    [] OTHER -> category

CategoryKept(item, category) == Get(item.entry, "category", "null") = RstripS(category)

\* the entries search_by_name visits, in order
NameSearchItems(db, category) ==
  IF "pests_diseases" \in db.has
  THEN IF category # NoCategory
       THEN SelectSeq(db.pests_diseases, LAMBDA item : CategoryKept(item, category))
       ELSE db.pests_diseases
  ELSE IF category # NoCategory
       THEN (IF category \in db.has THEN db[category] ELSE <<>>)
       ELSE (IF "pests" \in db.has THEN db.pests ELSE <<>>)
            \o (IF "diseases" \in db.has THEN db.diseases ELSE <<>>)

search_by_name(db, query, category, min_confidence) ==
  Only({SortByConfidence(results) :
          results \in {Only({NameMatches(items, query_lower, min_confidence) :
                               items \in {NameSearchItems(db, category)},
                               query_lower \in {Strip(Lower(query))}})}})

(***************************************************************************)
(* PestDiseaseLookupService: symptom search.                               *)
(***************************************************************************)
\* one entry symptom satisfies the partial-match condition for the input symptom
PartialMatch(symptom, entry_symptom) ==
  \/ IsSubstring(symptom, entry_symptom)
  \/ IsSubstring(entry_symptom, symptom)
  \/ Gt(Ratio(symptom, entry_symptom), <<7, 10>>)

\* variant: an exact match scores like a partial one
PartialScoreOnly(symptom, entry_symptoms) ==
  IF \E i \in 1..Len(entry_symptoms) : PartialMatch(symptom, entry_symptoms[i]) THEN 7
  ELSE 0

\* variant: a partial match counts half
HalfForPartial(symptom, entry_symptoms) ==
  IF \E i \in 1..Len(entry_symptoms) : entry_symptoms[i] = symptom THEN 10
  ELSE IF \E i \in 1..Len(entry_symptoms) : PartialMatch(symptom, entry_symptoms[i]) THEN 5
  ELSE 0

\* what one input symptom adds to matched_symptoms, in tenths
SymptomScore(symptom, entry_symptoms) ==
  IF \E i \in 1..Len(entry_symptoms) : entry_symptoms[i] = symptom THEN 10
  ELSE IF \E i \in 1..Len(entry_symptoms) : PartialMatch(symptom, entry_symptoms[i]) THEN 7
  ELSE 0

RECURSIVE MatchedSymptoms(_, _)
MatchedSymptoms(symptoms, entry_symptoms) ==
  IF symptoms = <<>> THEN 0
  ELSE SymptomScore(Head(symptoms), entry_symptoms)
       + MatchedSymptoms(Tail(symptoms), entry_symptoms)

\* the double matched_symptoms / len(symptoms) for at most four input symptoms:
\* 0.7 + 0.7 + 0.7 and 0.7 + 0.7 + 1 are rounded below 2.1 and 2.4, so that a
\* third of them is below 0.7 and 0.8; no other sum of at most four scores
\* falls on the other side of 0.2, 0.3, 0.4, 0.7 or 0.8 than its exact value
FloatQuotient(tenths, n) ==
  IF n = 3 /\ tenths \in {21, 24}
  THEN <<1000 * tenths - 1, 10000 * n>>
  ELSE <<tenths, 10 * n>>

FracMin(x, y) == IF Gt(x, y) THEN y ELSE x

\* [raised |-> TRUE] is the ZeroDivisionError of an empty symptom list
_calculate_symptom_match(symptoms, entry) ==
  IF "symptoms" \notin entry.has \/ entry.symptoms = <<>>
  THEN [raised |-> FALSE, confidence |-> Zero]
  ELSE IF Len(symptoms) = 0
       THEN [raised |-> TRUE, confidence |-> Zero]
       ELSE [raised |-> FALSE,
             confidence |->
               FracMin(FloatQuotient(MatchedSymptoms(symptoms, LowerAll(entry.symptoms)),
                                     Len(symptoms)),
                       One)]

NoCrop == <<>>

_matches_crop_type(entry, crop_type) ==
  IF "affected_crops" \notin entry.has THEN TRUE
  ELSE LET affected_crops == LowerAll(entry.affected_crops)
       IN \E i \in 1..Len(affected_crops) :
            affected_crops[i] = Lower(crop_type) \/ affected_crops[i] = <<"a", "l", "l">>

CropKept(item, crop_type) ==
  crop_type = NoCrop \/ _matches_crop_type(item.entry, crop_type)

\* the entries search_by_symptoms scores, in order
SymptomSearchItems(db, crop_type) ==
  SelectSeq(AllItems(db), LAMBDA item : CropKept(item, crop_type))

StripLowerAll(symptoms) == [i \in 1..Len(symptoms) |-> Strip(Lower(symptoms[i]))]

RECURSIVE SymptomMatches(_, _, _)
SymptomMatches(items, symptoms_lower, min_confidence) ==
  IF items = <<>> THEN <<>>
  ELSE LET key == Head(items).key
           entry == Head(items).entry
           confidence == _calculate_symptom_match(symptoms_lower, entry).confidence
           rest == SymptomMatches(Tail(items), symptoms_lower, min_confidence)
       IN IF Geq(confidence, min_confidence)
          THEN <<MatchResult(key, entry, confidence, "symptom")>> \o rest
          ELSE rest

\* [raised, matches]: the call raises when scoring any visited entry raises
search_by_symptoms(db, symptoms, crop_type, min_confidence) ==
  LET items == SymptomSearchItems(db, crop_type)
      symptoms_lower == StripLowerAll(symptoms)
  IN IF \E i \in 1..Len(items) : _calculate_symptom_match(symptoms_lower, items[i].entry).raised
     THEN [raised |-> TRUE, matches |-> <<>>]
     ELSE [raised |-> FALSE,
           matches |-> SortByConfidence(SymptomMatches(items, symptoms_lower, min_confidence))]

(***************************************************************************)
(* PestDiseaseLookupService: treatment recommendations.                    *)
(***************************************************************************)
\* str.lower() on the method names of the treatment records
LowerWord(w) ==
  CASE w = "Organic" -> "organic"
    [] w = "Cultural" -> "cultural"
    [] OTHER -> w

\* treatment_data.get(f, default) is None for a key whose value is null
IsNone(treatment_data, f) == f \in treatment_data.has /\ f \in treatment_data.nulls

DefaultPriority == 2

HighPriority == 1

DefaultEffectiveness == <<7, 10>>

PriorityOf(treatment_data) ==
  IF "priority" \notin treatment_data.has THEN DefaultPriority
  ELSE IF IsNone(treatment_data, "priority")
       THEN IF LowerWord(Get(treatment_data, "method", "")) \in {"organic", "cultural"}
            THEN HighPriority
            ELSE DefaultPriority
       ELSE treatment_data.priority

EffectivenessOf(treatment_data) ==
  IF "effectiveness" \notin treatment_data.has \/ IsNone(treatment_data, "effectiveness")
  THEN DefaultEffectiveness
  ELSE treatment_data.effectiveness

TreatmentRecommendation(treatment_data) ==
  [method |-> Get(treatment_data, "method", "general"),
   treatment |-> Get(treatment_data, "treatment", ""),
   application |-> Get(treatment_data, "application", ""),
   timing |-> Get(treatment_data, "timing", "As needed"),
   safety_notes |-> Get(treatment_data, "safety_notes", "Follow label instructions"),
   priority |-> PriorityOf(treatment_data),
   effectiveness |-> EffectivenessOf(treatment_data)]

\* variant: the sort key is the priority alone
PriorityLess(x, y) == x.priority < y.priority

\* the sort key (priority, -effectiveness) of x is smaller than that of y
KeyLess(x, y) ==
  \/ x.priority < y.priority
  \/ x.priority = y.priority /\ Gt(x.effectiveness, y.effectiveness)

RECURSIVE InsertByKey(_, _)
InsertByKey(sorted, t) ==
  IF sorted = <<>> THEN <<t>>
  ELSE IF KeyLess(t, Head(sorted))
       THEN <<t>> \o sorted
       ELSE <<Head(sorted)>> \o InsertByKey(Tail(sorted), t)

RECURSIVE SortByKeyFrom(_, _)
SortByKeyFrom(sorted, pending) ==
  IF pending = <<>> THEN sorted
  ELSE SortByKeyFrom(InsertByKey(sorted, Head(pending)), Tail(pending))

\* treatments.sort(key=lambda x: (x.priority, -x.effectiveness)): stable
SortTreatments(treatments) == SortByKeyFrom(<<>>, treatments)

OrganicKept(treatment_data, organic_only) ==
  ~organic_only \/ LowerWord(Get(treatment_data, "method", "")) = "organic"

get_treatment_recommendations(entry, organic_only) ==
  IF "treatments" \notin entry.has THEN <<>>
  ELSE LET kept == SelectSeq(entry.treatments, LAMBDA td : OrganicKept(td, organic_only))
       IN SortTreatments([i \in 1..Len(kept) |-> TreatmentRecommendation(kept[i])])

\* variant: organic_only filters the entry's own list
FilterEntryTreatments(entry, organic_only) ==
  SelectSeq(entry.treatments, LAMBDA td : OrganicKept(td, organic_only))

\* entry["treatments"] after get_treatment_recommendations: the records are read
\* into the new list `treatments`, and that list is what is sorted and returned
EntryTreatmentsAfter(entry, organic_only) == entry.treatments

\* the knowledge base with the treatments of the entry at key as given
WithTreatments(db, key, treatments) ==
  LET Put(items) ==
        IF items = <<>> THEN <<>>
        ELSE [j \in 1..Len(items) |->
                IF items[j].key = key
                THEN [items[j] EXCEPT !.entry.treatments = treatments]
                ELSE items[j]]
  IN [db EXCEPT !.pests_diseases = Put(@), !.pests = Put(@), !.diseases = Put(@)]

(***************************************************************************)
(* PestDiseaseLookupService: expert resources.                             *)
(***************************************************************************)
\* variant: no resources are configured
NoExpertResources == <<>>

_load_expert_resources ==
  << [name |-> "Agricultural Extension Office", contact |-> "1-800-ASK-FARM",
      type |-> "government", location |-> "Local",
      specialization |-> "General crop management"],
     [name |-> "Plant Disease Clinic", contact |-> "university-clinic@example.edu",
      type |-> "academic", location |-> "State University",
      specialization |-> "Disease diagnosis"],
     [name |-> "Integrated Pest Management Specialist", contact |-> "ipm-expert@example.com",
      type |-> "consultant", location |-> "None",
      specialization |-> "Sustainable pest control"] >>

(***************************************************************************)
(* PestDiseaseLookupService: comprehensive analysis.                       *)
(***************************************************************************)
\* s[:n]
Take(s, n) == SubSeq(s, 1, IF Len(s) < n THEN Len(s) ELSE n)

_match_result_to_dict(match) ==
  [key |-> match.key,
   common_name |-> Get(match.entry, "common_name", <<>>),
   scientific_name |-> Get(match.entry, "scientific_name", <<>>),
   confidence |-> match.confidence,
   match_type |-> match.match_type,
   description |-> Get(match.entry, "description", ""),
   symptoms |-> Get(match.entry, "symptoms", <<>>)]

RECURSIVE DeduplicateFrom(_, _, _)
DeduplicateFrom(unique_matches, seen_keys, sorted) ==
  IF sorted = <<>> THEN unique_matches
  ELSE IF Head(sorted).key \in seen_keys
       THEN DeduplicateFrom(unique_matches, seen_keys, Tail(sorted))
       ELSE DeduplicateFrom(Append(unique_matches, Head(sorted)),
                            seen_keys \cup {Head(sorted).key}, Tail(sorted))

\* variant: the matches are deduplicated in the order given
DeduplicateUnsorted(matches_given) == DeduplicateFrom(<<>>, {}, matches_given)

_deduplicate_matches(matches_given) == DeduplicateFrom(<<>>, {}, SortByConfidence(matches_given))

\* the match lists a caller can pass: results for two entries, equal confidences
\* also in unequal float operations, the match type telling the results apart
MatchPool ==
  {MatchResult(item.key, item.entry, confidence, match_type) :
     item \in {EntryPool[1], EntryPool[2]},
     confidence \in {<<1, 2>>, <<5, 10>>, <<7, 10>>},
     match_type \in {"fuzzy", "symptom"}}

RECURSIVE MatchListsUpTo(_)
MatchListsUpTo(n) ==
  IF n = 0 THEN {<<>>}
  ELSE LET shorter == MatchListsUpTo(n - 1)
       IN shorter \cup {Append(s, m) : s \in {t \in shorter : Len(t) = n - 1}, m \in MatchPool}

MaxMatches == 3

MatchLists == MatchListsUpTo(MaxMatches)

\* the entries of combined_recommendations for the matches given
RECURSIVE CombinedRecommendations(_)
CombinedRecommendations(top_matches) ==
  IF top_matches = <<>> THEN <<>>
  ELSE (IF get_treatment_recommendations(Head(top_matches).entry, FALSE) = <<>>
        THEN <<>>
        ELSE << [pest_disease |-> Head(top_matches).key,
                 confidence |-> Head(top_matches).confidence,
                 treatments |->
                   Take(get_treatment_recommendations(Head(top_matches).entry, FALSE), 3)] >>)
       \o CombinedRecommendations(Tail(top_matches))

RECURSIVE GreatestCommonDivisor(_, _)
GreatestCommonDivisor(a, b) == IF b = 0 THEN a ELSE GreatestCommonDivisor(b, a % b)

\* the fraction in lowest terms
Lowest(x) == Only({<<x[1] \div g, x[2] \div g>> : g \in {GreatestCommonDivisor(x[1], x[2])}})

RECURSIVE SumConfidence(_)
SumConfidence(unique_matches) ==
  IF unique_matches = <<>> THEN Zero
  ELSE Only({Only({Lowest(<<h[1] * (t[2] \div g) + t[1] * (h[2] \div g),
                            h[2] * (t[2] \div g)>>) :
                      g \in {GreatestCommonDivisor(h[2], t[2])}}) :
               h \in {Head(unique_matches).confidence},
               t \in {SumConfidence(Tail(unique_matches))}})

HighestConfidence(unique_matches) ==
  LET all == {unique_matches[i].confidence : i \in 1..Len(unique_matches)}
  IN CHOOSE c \in all : \A d \in all : Geq(c, d)

NoSummary ==
  [has |-> {}, highest_confidence |-> Zero, average_confidence |-> Zero,
   total_matches |-> 0, high_confidence_matches |-> 0]

ConfidenceSummary(unique_matches) ==
  IF unique_matches = <<>> THEN NoSummary
  ELSE [has |-> {"highest_confidence", "average_confidence", "total_matches",
                 "high_confidence_matches"},
        highest_confidence |-> HighestConfidence(unique_matches),
        average_confidence |->
          <<SumConfidence(unique_matches)[1],
            SumConfidence(unique_matches)[2] * Len(unique_matches)>>,
        total_matches |-> Len(unique_matches),
        high_confidence_matches |->
          Cardinality({i \in 1..Len(unique_matches) :
                         Geq(unique_matches[i].confidence, <<8, 10>>)})]

NoAnalysis ==
  [name_matches |-> <<>>, symptom_matches |-> <<>>, combined_recommendations |-> <<>>,
   expert_resources |-> <<>>, confidence_summary |-> NoSummary]

\* the results once both searches have returned
AnalysisResults(name_matches, symptom_matches) ==
  Only({[name_matches |->
           [i \in 1..Len(Take(name_matches, 5)) |-> _match_result_to_dict(name_matches[i])],
         symptom_matches |->
           [i \in 1..Len(Take(symptom_matches, 5)) |->
              _match_result_to_dict(symptom_matches[i])],
         combined_recommendations |-> CombinedRecommendations(Take(unique_matches, 3)),
         expert_resources |-> _load_expert_resources,
         confidence_summary |-> ConfidenceSummary(unique_matches)] :
          unique_matches \in {_deduplicate_matches(name_matches \o symptom_matches)}})

\* variant: names are searched with min_confidence 0.4
AnalysisOfCloseNames(db, query, symptoms, crop_type) ==
  Only({IF found.raised THEN [raised |-> TRUE, results |-> NoAnalysis]
        ELSE [raised |-> FALSE, results |-> AnalysisResults(name_matches, found.matches)] :
          name_matches \in {search_by_name(db, query, NoCategory, <<4, 10>>)},
          found \in {IF symptoms = <<>> THEN [raised |-> FALSE, matches |-> <<>>]
                     ELSE search_by_symptoms(db, symptoms, crop_type, <<2, 10>>)}})

\* raised when search_by_symptoms raises; symptoms that are None or empty are
\* not searched
get_comprehensive_analysis(db, query, symptoms, crop_type) ==
  Only({IF found.raised THEN [raised |-> TRUE, results |-> NoAnalysis]
        ELSE [raised |-> FALSE, results |-> AnalysisResults(name_matches, found.matches)] :
          name_matches \in {search_by_name(db, query, NoCategory, <<3, 10>>)},
          found \in {IF symptoms = <<>> THEN [raised |-> FALSE, matches |-> <<>>]
                     ELSE search_by_symptoms(db, symptoms, crop_type, <<2, 10>>)}})

(***************************************************************************)
(* DiseaseIdentificationService.                                           *)
(***************************************************************************)
IdentificationMatch(name, scientific_name, confidence, category, description, symptoms, images) ==
  [name |-> name, scientific_name |-> scientific_name, confidence |-> confidence,
   category |-> category, description |-> description, symptoms |-> symptoms,
   images |-> images]

UnknownDisease ==
  <<"U", "n", "k", "n", "o", "w", "n", " ", "D", "i", "s", "e", "a", "s", "e">>

PlantHealthIssueDetected ==
  <<"P", "l", "a", "n", "t", " ", "H", "e", "a", "l", "t", "h", " ", "I", "s", "s",
  "u", "e", " ", "D", "e", "t", "e", "c", "t", "e", "d">>

UnableToIdentify ==
  <<"U", "n", "a", "b", "l", "e", " ", "t", "o", " ", "I", "d", "e", "n", "t", "i",
  "f", "y", " ", "S", "p", "e", "c", "i", "f", "i", "c", " ", "I", "s", "s", "u",
  "e">>

DiseaseMatch(disease) ==
  IdentificationMatch(Get(disease, "name", UnknownDisease),
                      Get(disease, "entity_name", <<>>),
                      Get(disease, "probability", Zero),
                      "disease",
                      Get(disease, "description", "No description available"),
                      Get(disease, "common_names", <<>>),
                      Take(Get(disease, "similar_images", <<>>), 3))

HealthMatch(suggestion) ==
  IdentificationMatch(PlantHealthIssueDetected, <<>>,
                      LET p == Get(suggestion, "is_healthy", <<1, 2>>)
                      IN <<p[2] - p[1], p[2]>>,
                      "health_issue",
                      "Plant appears to have health issues that require attention",
                      <<"General plant stress indicators detected">>, <<>>)

\* "details": null makes details.get raise AttributeError
DiseaseRaises(disease) == "details" \in disease.nulls

\* the matches appended before `except Exception` ends the suggestion
RECURSIVE ParsedFindings(_)
ParsedFindings(disease_suggestions) ==
  IF disease_suggestions = <<>> \/ DiseaseRaises(Head(disease_suggestions)) THEN <<>>
  ELSE <<DiseaseMatch(Head(disease_suggestions))>> \o ParsedFindings(Tail(disease_suggestions))

\* the matches one suggestion contributes; "disease": null makes the `in` test
\* raise TypeError
SuggestionMatches(suggestion) ==
  IF "disease" \in suggestion.nulls THEN <<>>
  ELSE IF "disease" \in suggestion.has
  THEN ParsedFindings(Take(suggestion.disease, 2))
  ELSE IF "plant_health_assessment" \in suggestion.has
          /\ ~Geq(Get(suggestion, "is_healthy", Zero), <<1, 2>>)
       THEN <<HealthMatch(suggestion)>>
       ELSE <<>>

RECURSIVE ConcatMatches(_)
ConcatMatches(suggestions) ==
  IF suggestions = <<>> THEN <<>>
  ELSE SuggestionMatches(Head(suggestions)) \o ConcatMatches(Tail(suggestions))

_parse_plant_id_suggestions(suggestions) == ConcatMatches(Take(suggestions, 3))

\* a name that is null in the API's JSON: not a string
Null == <<"None">>

\* variant: the scientific name is searched first
ScientificNameFirst(db, api_name, scientific_name) ==
  IF api_name = Null THEN [found |-> FALSE, entry |-> NoEntry]
  ELSE LET by_name == search_by_name(db, api_name, NoCategory, <<6, 10>>)
           by_scientific == search_by_name(db, scientific_name, NoCategory, <<7, 10>>)
       IN IF scientific_name # <<>> /\ by_scientific # <<>>
          THEN [found |-> TRUE, entry |-> by_scientific[1].entry]
          ELSE IF by_name # <<>> THEN [found |-> TRUE, entry |-> by_name[1].entry]
          ELSE [found |-> FALSE, entry |-> NoEntry]

\* [found, entry]: the entry of the best match by name, else by scientific name;
\* search_by_name raises on query.lower() for a name that is no string, and
\* `except Exception` returns None
_find_local_match(db, api_name, scientific_name) ==
  IF api_name = Null THEN [found |-> FALSE, entry |-> NoEntry]
  ELSE
  LET by_name == search_by_name(db, api_name, NoCategory, <<6, 10>>)
      by_scientific == search_by_name(db, scientific_name, NoCategory, <<7, 10>>)
  IN Only({IF found # <<>> THEN [found |-> TRUE, entry |-> found[1].entry]
           ELSE IF scientific_name # <<>>
                THEN Only({IF again # <<>>
                           THEN [found |-> TRUE, entry |-> again[1].entry]
                           ELSE [found |-> FALSE, entry |-> NoEntry] :
                             again \in {by_scientific}})
                ELSE [found |-> FALSE, entry |-> NoEntry] :
             found \in {by_name}})

\* the branch taken for a plain entry dict (it has no attribute `entry`)
_extract_treatments_from_local_data(local_entry) ==
  IF "treatments" \in local_entry.has
  THEN [i \in 1..Len(local_entry.treatments) |->
          [method |-> Get(local_entry.treatments[i], "method", "general"),
           treatment |-> Get(local_entry.treatments[i], "treatment", ""),
           application |-> Get(local_entry.treatments[i], "application", ""),
           timing |-> Get(local_entry.treatments[i], "timing", ""),
           safety_notes |-> Get(local_entry.treatments[i], "safety_notes", "")]]
  ELSE <<>>

_extract_prevention_tips(local_entry) == Get(local_entry, "prevention", <<>>)

DefaultExpertResources ==
  << [name |-> "Local Agricultural Extension Service",
      contact |-> "Contact your local county extension office",
      type |-> "extension_service", location |-> "Local"],
     [name |-> "Plant Disease Diagnostic Lab",
      contact |-> "Submit samples to your state's plant diagnostic laboratory",
      type |-> "university", location |-> "State University"],
     [name |-> "Certified Crop Advisor",
      contact |-> "Find a CCA through the American Society of Agronomy",
      type |-> "consultant", location |-> "Regional"] >>

\* variant: nothing stands in for the lookup service's resources
LookupResourcesOrNone(fails) ==
  IF fails THEN <<>>
  ELSE [i \in 1..Len(_load_expert_resources) |->
          [name |-> _load_expert_resources[i].name,
           contact |-> _load_expert_resources[i].contact,
           type |-> _load_expert_resources[i].type,
           location |-> _load_expert_resources[i].location]]

\* fails: lookup_service.get_expert_resources() raised
_get_fallback_expert_resources(fails) ==
  IF fails THEN DefaultExpertResources
  ELSE [i \in 1..Len(_load_expert_resources) |->
          [name |-> _load_expert_resources[i].name,
           contact |-> _load_expert_resources[i].contact,
           type |-> _load_expert_resources[i].type,
           location |-> _load_expert_resources[i].location]]

GeneralPreventionTips ==
  << "Monitor plants regularly for early detection of issues",
     "Maintain proper plant spacing for good air circulation",
     "Water at soil level to avoid wetting leaves",
     "Remove and dispose of affected plant material properly",
     "Practice crop rotation to break disease cycles" >>

GeneralTreatments ==
  << [method |-> "cultural", treatment |-> "Improve plant care practices",
      application |-> "Ensure proper watering, lighting, and nutrition",
      timing |-> "Ongoing", safety_notes |-> "Monitor plant response to changes"],
     [method |-> "organic", treatment |-> "Neem oil or horticultural soap",
      application |-> "Spray according to product instructions",
      timing |-> "Early morning or evening", safety_notes |-> "Test on small area first"] >>

Range(s) == {s[i] : i \in 1..Len(s)}

\* the lists list(set(tips)) can be: every order of the distinct tips
Orderings(S) ==
  {s \in [1..Cardinality(S) -> S] : \A i, j \in 1..Cardinality(S) : i # j => s[i] # s[j]}

\* variant: a match without a local entry is left out
DropUnmatched(match, local, rest) ==
  IF local.found /\ local.entry.has # {}
  THEN [rest EXCEPT !.processed_matches = <<match>> \o @]
  ELSE rest

\* one pass of the loop over api_matches, put before what the later passes add
ProcessMatch(match, local, rest) ==
  IF local.found /\ local.entry.has # {}
  THEN [processed_matches |->
          << IdentificationMatch(
               Get(local.entry, "name", match.name),
               Get(local.entry, "scientific_name", match.scientific_name),
               match.confidence,
               Get(local.entry, "category", match.category),
               Get(local.entry, "description", match.description),
               Get(local.entry, "symptoms", match.symptoms),
               Get(local.entry, "images", match.images)) >>
          \o rest.processed_matches,
        all_treatments |->
          _extract_treatments_from_local_data(local.entry) \o rest.all_treatments,
        all_prevention_tips |->
          _extract_prevention_tips(local.entry) \o rest.all_prevention_tips]
  ELSE [rest EXCEPT !.processed_matches = <<match>> \o @]

\* the loop over api_matches: [processed_matches, all_treatments, all_prevention_tips]
RECURSIVE ProcessMatches(_, _)
ProcessMatches(db, api_matches) ==
  IF api_matches = <<>>
  THEN [processed_matches |-> <<>>, all_treatments |-> <<>>, all_prevention_tips |-> <<>>]
  ELSE Only({ProcessMatch(match, local, rest) :
               match \in {Head(api_matches)},
               local \in {_find_local_match(db, Head(api_matches).name,
                                            Head(api_matches).scientific_name)},
               rest \in {ProcessMatches(db, Tail(api_matches))}})

\* variant: no general treatments
TreatmentsAsCollected(all_treatments) == all_treatments

\* `if not all_treatments`: the two general treatments stand in for none
TreatmentsOrGeneral(all_treatments) ==
  IF all_treatments = <<>> THEN GeneralTreatments ELSE all_treatments

\* variant: the tips as collected, duplicates kept, no general tips
TipsAsCollected(all_prevention_tips) == {all_prevention_tips}

\* the lists unique_prevention_tips can be: list(set(...)) in any order
PreventionTipLists(all_prevention_tips) ==
  IF all_prevention_tips = <<>> THEN {GeneralPreventionTips}
  ELSE Orderings(Range(all_prevention_tips))

\* the results the call can build, one for each order list(set(...)) can give;
\* processed is what its loop over api_matches has collected (ProcessMatches)
_generate_comprehensive_result(processed, confidence_level, api_source, fails) ==
  {[has |-> {"matches", "treatments", "prevention_tips", "expert_resources",
             "confidence_level", "api_source"},
    matches |-> processed.processed_matches,
    treatments |-> TreatmentsOrGeneral(processed.all_treatments),
    prevention_tips |-> unique_prevention_tips,
    expert_resources |-> _get_fallback_expert_resources(fails),
    confidence_level |-> confidence_level,
    api_source |-> api_source,
    fallback_mode |-> FALSE,
    message |-> ""] :
      unique_prevention_tips \in PreventionTipLists(processed.all_prevention_tips)}

(***************************************************************************)
(* PlantIdClient: the overall confidence level of a successful response.   *)
(***************************************************************************)
MaxProbability(diseases) ==
  LET P == {Get(diseases[i], "probability", Zero) : i \in 1..Len(diseases)}
  IN CHOOSE p \in P : \A q \in P : Geq(p, q)

\* variant: the levels start above 0.8 and above 0.5
LevelAboveThresholds(suggestions) ==
  IF suggestions = <<>> THEN "low"
  ELSE LET top_suggestion == suggestions[1]
           max_probability ==
             IF "disease" \in top_suggestion.has /\ top_suggestion.disease # <<>>
             THEN MaxProbability(top_suggestion.disease)
             ELSE Zero
       IN IF Gt(max_probability, <<8, 10>>) THEN "high"
          ELSE IF Gt(max_probability, <<5, 10>>) THEN "medium"
          ELSE "low"

_calculate_confidence_level(suggestions) ==
  IF suggestions = <<>> THEN "low"
  ELSE LET top_suggestion == suggestions[1]
           max_probability ==
             IF "disease" \in top_suggestion.has /\ top_suggestion.disease # <<>>
             THEN MaxProbability(top_suggestion.disease)
             ELSE Zero
       IN IF Geq(max_probability, <<8, 10>>) THEN "high"
          ELSE IF Geq(max_probability, <<5, 10>>) THEN "medium"
          ELSE "low"

(***************************************************************************)
(* Inputs.                                                                 *)
(***************************************************************************)
Queries == StringsUpTo(MaxLen)

Thresholds == {Zero, <<4, 10>>, <<7, 10>>}

SymptomPool == << <<"a", "b">>, <<"A", "b", " ">>, <<"b">>, <<"b", "a">> >>

RECURSIVE SeqsOver(_, _)
SeqsOver(pool, n) ==
  IF n = 0 THEN {<<>>}
  ELSE LET shorter == SeqsOver(pool, n - 1)
       IN shorter \cup
          {Append(s, pool[i]) : s \in {t \in shorter : Len(t) = n - 1}, i \in 1..Len(pool)}

SymptomLists == SeqsOver(SymptomPool, MaxSymptoms)

CropTypes == {NoCrop, <<"t", "O">>, <<"c">>}

NoDisease ==
  [has |-> {}, nulls |-> {}, name |-> <<>>, entity_name |-> <<>>, probability |-> Zero,
   description |-> "", common_names |-> <<>>, similar_images |-> <<>>]

NoSuggestion == [has |-> {}, nulls |-> {}, disease |-> <<>>, is_healthy |-> Zero]

DiseasePool ==
  << [NoDisease EXCEPT !.has = {"name", "probability", "entity_name", "description"},
        !.name = <<"A", "B">>, !.entity_name = <<"b", "a">>, !.probability = <<8, 10>>,
        !.description = "aphid infestation"],
     [NoDisease EXCEPT !.has = {"name", "probability", "entity_name"},
        !.name = <<"b", "a", "a">>, !.entity_name = <<"a", "a">>,
        !.probability = <<4, 10>>],
     [NoDisease EXCEPT !.has = {"name", "probability", "common_names", "similar_images"},
        !.name = <<"b", "b", " ">>, !.probability = <<2, 10>>,
        !.common_names = <<"leaf yellowing">>,
        !.similar_images = <<"1.jpg", "2.jpg", "3.jpg", "4.jpg">>],
     [NoDisease EXCEPT !.has = {"probability"}, !.probability = <<1, 10>>],
     [NoDisease EXCEPT !.has = {"name", "probability"},
        !.name = <<"a">>, !.probability = <<5, 10>>] >>

SuggestionPool ==
  << [NoSuggestion EXCEPT !.has = {"disease"}, !.disease = <<DiseasePool[1]>>],
     [NoSuggestion EXCEPT !.has = {"disease"},
        !.disease = <<DiseasePool[2], DiseasePool[3], DiseasePool[5]>>],
     [NoSuggestion EXCEPT !.has = {"disease"}, !.disease = <<DiseasePool[4]>>],
     [NoSuggestion EXCEPT !.has = {"plant_health_assessment", "is_healthy"},
        !.is_healthy = <<3, 10>>],
     [NoSuggestion EXCEPT !.has = {"plant_health_assessment", "is_healthy"},
        !.is_healthy = <<8, 10>>] >>

SuggestionLists == SeqsOver(SuggestionPool, MaxSuggestions)

NoArgs ==
  [query |-> <<>>, category |-> NoCategory, min_confidence |-> Zero, symptoms |-> <<>>,
   crop_type |-> NoCrop, organic_only |-> FALSE, entry |-> NoEntry, matches |-> <<>>]

NoApiResult == [kind |-> "none", suggestions |-> <<>>, confidence_level |-> ""]

\* the lists _generate_comprehensive_result has collected when it returns
NoCollected ==
  [processed_matches |-> <<>>, all_treatments |-> <<>>, all_prevention_tips |-> <<>>]

NoResult ==
  [has |-> {}, matches |-> <<>>, treatments |-> <<>>, prevention_tips |-> <<>>,
   expert_resources |-> <<>>, confidence_level |-> "", api_source |-> "",
   fallback_mode |-> FALSE, message |-> ""]

NoResponse ==
  [matches |-> <<>>, treatments |-> <<>>, prevention_tips |-> <<>>,
   expert_resources |-> <<>>, confidence_level |-> "", api_source |-> ""]

(***************************************************************************)
(* PlantIdClient: rate limiting, the request loop and identify_disease.    *)
(***************************************************************************)
max_requests_per_minute == 60

max_requests_per_day == 1000

max_retries == 3

\* the status_code of a PlantIdApiError raised without one
NoStatus == 0

\* window_start is "None" until the first check, daily_reset is set on construction
RateLimitInfo == [requests_made |-> 0, window_start |-> "None", daily_requests |-> 0]

\* the clock against the limiter's two windows: whether a minute has passed
\* since window_start, and whether daily_reset has been reached
NoTimePassed == [minute |-> FALSE, day |-> FALSE]

_reset_rate_limit_if_needed(limit, time) ==
  [limit EXCEPT
     !.requests_made = IF limit.window_start = "None" \/ time.minute THEN 0 ELSE @,
     !.window_start = "set",
     !.daily_requests = IF time.day THEN 0 ELSE @]

\* variant: only the per-minute counter is advanced
CountMinuteOnly(limit) == [limit EXCEPT !.requests_made = @ + 1]

\* variant: only the daily quota is checked
CheckDailyQuotaOnly(limit) ==
  IF limit.daily_requests >= max_requests_per_day
  THEN "Daily quota exceeded: too many requests today"
  ELSE ""

\* the error message of _check_rate_limit after the reset, "" when can_proceed
_check_rate_limit(limit) ==
  IF limit.requests_made >= max_requests_per_minute
  THEN "Rate limit exceeded: too many requests per minute"
  ELSE IF limit.daily_requests >= max_requests_per_day
  THEN "Daily quota exceeded: too many requests today"
  ELSE ""

_update_rate_limit(limit) ==
  [limit EXCEPT !.requests_made = @ + 1, !.daily_requests = @ + 1]

PlantIdApiError(error_type, status_code) ==
  [error_type |-> error_type, status_code |-> status_code]

\* what one client.post can end in: a response with a status and a body, or
\* an exception of httpx or of anything else
Statuses == {200, 401, 402, 404, 429, 500, 503}

\* a body: whether it is JSON, which required keys it has, whether the top
\* suggestion's disease value is a mapping, and the suggestions
NoBody == [json |-> FALSE, has |-> {}, typed |-> TRUE, suggestions |-> <<>>]

BodySuggestions == {<<>>} \cup {<<SuggestionPool[i]>> : i \in 1..Len(SuggestionPool)}

Bodies ==
  {NoBody}
  \cup {[NoBody EXCEPT !.json = TRUE, !.has = has] : has \in {{}, {"id"}, {"suggestions"}}}
  \cup {[json |-> TRUE, has |-> {"id", "suggestions"}, typed |-> typed,
         suggestions |-> suggestions] :
          typed \in BOOLEAN, suggestions \in BodySuggestions}

NoOutcome == [kind |-> "none", status |-> NoStatus, body |-> NoBody]

HttpOutcomes ==
  {[NoOutcome EXCEPT !.kind = "response", !.status = status] : status \in Statuses \ {200}}
  \cup {[kind |-> "response", status |-> 200, body |-> body] : body \in Bodies}
  \cup {[NoOutcome EXCEPT !.kind = kind] :
          kind \in {"TimeoutException", "NetworkError", "Exception"}}

Received(o) == o.kind = "response"

\* variant: a denied request is retried as well
RetryableOrDenied(o) ==
  \/ o.kind \in {"TimeoutException", "NetworkError"}
  \/ Received(o) /\ (o.status \in {401, 402, 429} \/ o.status >= 500)

\* the outcomes whose branch may `continue` the loop
Retryable(o) ==
  \/ o.kind \in {"TimeoutException", "NetworkError"}
  \/ Received(o) /\ (o.status = 429 \/ o.status >= 500)

\* variant: every failed attempt backs off
MayAlwaysRetry(retry) == retry < max_retries

\* `if retry_count < max_retries - 1`
MayRetry(retry) == retry < max_retries - 1

\* the PlantIdApiError _make_api_request raises for an outcome it does not
\* return from and does not retry
RequestError(o) ==
  IF o.kind = "TimeoutException" THEN PlantIdApiError("timeout_error", NoStatus)
  ELSE IF o.kind = "NetworkError" THEN PlantIdApiError("network_error", NoStatus)
  ELSE IF o.kind = "Exception" \/ o.status = 200
  THEN PlantIdApiError("unexpected_error", NoStatus)
  ELSE IF o.status = 401 THEN PlantIdApiError("authentication_error", 401)
  ELSE IF o.status = 402 THEN PlantIdApiError("quota_exceeded", 402)
  ELSE IF o.status = 429 THEN PlantIdApiError("rate_limit_exceeded", 429)
  ELSE IF o.status >= 500 THEN PlantIdApiError("service_unavailable", o.status)
  ELSE PlantIdApiError("api_error", o.status)

\* _parse_api_response: the error it raises, error_type "" when it returns
_parse_api_response(body) ==
  IF "suggestions" \notin body.has THEN PlantIdApiError("invalid_response", NoStatus)
  ELSE IF "id" \notin body.has THEN PlantIdApiError("parsing_error", NoStatus)
  ELSE PlantIdApiError("", NoStatus)

NoClientResult ==
  [has |-> {}, success |-> FALSE, response |-> <<>>, confidence_level |-> "",
   api_source |-> "", error_type |-> "", status_code |-> NoStatus]

\* the three values identify_disease returns
Identified(body) ==
  [NoClientResult EXCEPT
     !.has = {"success", "response", "confidence_level", "api_source",
              "is_plant_probability"},
     !.success = TRUE, !.response = body.suggestions,
     !.confidence_level = _calculate_confidence_level(body.suggestions),
     !.api_source = "plant_id"]

ApiErrorReturned(error) ==
  [NoClientResult EXCEPT
     !.has = {"success", "error", "error_type", "status_code"},
     !.error_type = error.error_type, !.status_code = error.status_code]

UnexpectedErrorReturned ==
  [NoClientResult EXCEPT !.has = {"success", "error", "error_type"},
                         !.error_type = "unexpected_error"]

\* variant: identify_disease lets the error through
PropagateApiError(error) == [pc |-> "raised", value |-> NoClientResult]

\* `except PlantIdApiError as e`
CatchApiError(error) == [pc |-> "done", value |-> ApiErrorReturned(error)]

\* identify_disease once _make_api_request has returned the body
AfterResponse(body) ==
  IF _parse_api_response(body).error_type # ""
  THEN CatchApiError(_parse_api_response(body))
  ELSE IF body.suggestions # <<>> /\ ~body.typed
  THEN [pc |-> "done", value |-> UnexpectedErrorReturned]
  ELSE [pc |-> "done", value |-> Identified(body)]

\* identify_disease once the loop has ended with outcome o
AfterRequest(o) ==
  IF Received(o) /\ o.status = 200 /\ o.body.json THEN AfterResponse(o.body)
  ELSE CatchApiError(RequestError(o))

(***************************************************************************)
(* The /identify handler before the service call: validation, read,        *)
(* empty-file check, optimization, and the handlers of the outer try.      *)
(***************************************************************************)
ALLOWED_IMAGE_TYPES == {"image/jpeg", "image/jpg", "image/png"}

MAX_IMAGE_SIZE == 10 * 1024 * 1024

\* file.filename is None
NoFilename == <<>>

\* str.lower() on the last component of the file name
LowerExt(w) ==
  CASE w = "JPG" -> "jpg"
    [] w = "PNG" -> "png"
    [] OTHER -> w

\* the errors validate_image_file collects; filename is the name split at '.'
ValidationErrors(file) ==
  (IF file.size # 0 /\ file.size > MAX_IMAGE_SIZE THEN {"size"} ELSE {})
  \cup (IF file.content_type \notin ALLOWED_IMAGE_TYPES THEN {"content_type"} ELSE {})
  \cup (IF file.filename # NoFilename
           /\ LowerExt(file.filename[Len(file.filename)]) \notin {"jpg", "jpeg", "png"}
        THEN {"extension"} ELSE {})

validate_image_file(file) ==
  [valid |-> ValidationErrors(file) = {}, errors |-> ValidationErrors(file)]

\* optimize_image: whatever PIL raises is raised again as a ValueError
optimize_image(file) == IF file.decodable THEN "optimized" ELSE "ValueError"

HTTPException(status_code, error_type) ==
  [exception |-> "HTTPException", status_code |-> status_code, error_type |-> error_type]

NoHttpError == HTTPException(0, "")

\* `except asyncio.TimeoutError` and `except Exception` around image.read()
ReadHandlers(raised) ==
  IF raised = "TimeoutError" THEN HTTPException(408, "timeout_error")
  ELSE HTTPException(422, "file_read_error")

\* `except ValueError` and `except Exception` around optimize_image
OptimizeHandlers(raised) ==
  IF raised = "ValueError" THEN HTTPException(422, "image_processing_error")
  ELSE HTTPException(500, "processing_error")

\* variant: the outer try answers every exception with a 500
InternalServerError(raised) == HTTPException(500, "internal_server_error")

\* the handlers of the outer try: HTTPException is re-raised
OuterHandlers(raised) ==
  IF raised.exception = "HTTPException" THEN raised
  ELSE IF raised.exception = "TimeoutError" THEN HTTPException(408, "request_timeout")
  ELSE HTTPException(500, "internal_server_error")

Filenames == {NoFilename, <<"leaf", "jpg">>, <<"leaf", "JPG">>, <<"leaf", "txt">>, <<"leaf">>}

\* the uploads: size is the number of bytes, decodable whether PIL opens them
Uploads ==
  {[size |-> size, content_type |-> content_type, filename |-> filename,
    read |-> read, decodable |-> decodable] :
     size \in {0, 3, MAX_IMAGE_SIZE + 1},
     content_type \in {"image/jpeg", "image/png", "text/plain"},
     filename \in Filenames,
     read \in {"read", "TimeoutError", "OSError"},
     decodable \in BOOLEAN}

\* an upload that passed every stage before the service call
AcceptedUpload ==
  [size |-> 3, content_type |-> "image/jpeg", filename |-> <<"leaf", "jpg">>,
   read |-> "read", decodable |-> TRUE]

Optimized ==
  /\ upload = AcceptedUpload
  /\ stage = "optimized"
  /\ http_error = NoHttpError

(***************************************************************************)
(* /predict: the soil advice added to the prediction.                      *)
(***************************************************************************)
\* request.soil_type is None
NoSoilType == ""

\* soil_types.json was not found: soil_types_data = {}
NoSoilData == [has |-> {}, soil_types |-> <<>>, compatibility_matrix |-> <<>>]

\* a JSON object absent from its parent, or {}
NoObject == [has |-> {}]

Compost ==
  [has |-> {"name", "purpose", "application_rate", "timing"}, name |-> "Organic compost"]

\* an amendment record that Amendment(**amendment_data) rejects
Unnamed == [has |-> {"purpose", "application_rate", "timing"}, name |-> ""]

DailyWatering ==
  [has |-> {"frequency", "duration", "method", "special_notes"},
   frequency |-> "Daily watering"]

\* an irrigation record that IrrigationGuidance(**irrigation_data) rejects
NoFrequency == [has |-> {"duration", "method", "special_notes"}, frequency |-> ""]

\* the guidance built when the record is rejected
DefaultIrrigationGuidance ==
  [has |-> {"frequency", "duration", "method", "special_notes"},
   frequency |-> "Regular watering as needed"]

\* the entry of a mapping of (key, value) pairs, NoObject when key is absent
Lookup(mapping, key) ==
  IF \E i \in 1..Len(mapping) : mapping[i].key = key
  THEN mapping[CHOOSE i \in 1..Len(mapping) : mapping[i].key = key].value
  ELSE NoObject

Keys(mapping) == {mapping[i].key : i \in 1..Len(mapping)}

validate_soil_type(data, soil_type) ==
  IF data.has = {} \/ "soil_types" \notin data.has THEN FALSE
  ELSE soil_type \in Keys(data.soil_types)

get_soil_type_data(data, soil_type) ==
  IF data.has = {} \/ "soil_types" \notin data.has THEN NoObject
  ELSE Lookup(data.soil_types, soil_type)

LowerCrop(crop_name) == IF crop_name = "Wheat" THEN "wheat" ELSE crop_name

get_compatibility_score(data, crop_name, soil_type) ==
  IF data.has = {} \/ "compatibility_matrix" \notin data.has
  THEN [score |-> <<1, 2>>, warnings |-> <<"Compatibility data not available">>]
  ELSE LET crop_lower == LowerCrop(crop_name)
           compatibility_matrix == data.compatibility_matrix
       IN IF crop_lower \in Keys(compatibility_matrix)
             /\ soil_type \in Keys(Lookup(compatibility_matrix, crop_lower))
          THEN Lookup(Lookup(compatibility_matrix, crop_lower), soil_type)
          ELSE [score |-> <<1, 2>>,
                warnings |->
                  <<"Compatibility data not available for this crop-soil combination">>]

\* the amendments that Amendment(**amendment_data) accepts, in order
RECURSIVE Amendments(_)
Amendments(records) ==
  IF records = <<>> THEN <<>>
  ELSE IF {"name", "purpose", "application_rate", "timing"} \subseteq Head(records).has
       THEN <<Head(records)>> \o Amendments(Tail(records))
       ELSE Amendments(Tail(records))

irrigation_guidance(irrigation_data) ==
  IF {"frequency", "duration", "method", "special_notes"} \subseteq irrigation_data.has
  THEN irrigation_data
  ELSE DefaultIrrigationGuidance

\* Python None
None == [type |-> "NoneType"]

\* generate_soil_advice returns a dict (or None)
generate_soil_advice(data, crop_name, soil_type) ==
  IF soil_type = NoSoilType \/ data.has = {} THEN None
  ELSE IF ~validate_soil_type(data, soil_type) THEN None
  ELSE LET soil_data == get_soil_type_data(data, soil_type)
           compatibility == get_compatibility_score(data, crop_name, soil_type)
       IN IF soil_data.has = {} THEN None
          ELSE [type |-> "dict",
                compatibility_score |-> compatibility.score,
                amendments |->
                  Amendments(IF "amendments" \in soil_data.has
                             THEN soil_data.amendments ELSE <<>>),
                irrigation_tips |->
                  irrigation_guidance(IF "irrigation_guidance" \in soil_data.has
                                      THEN soil_data.irrigation_guidance ELSE NoObject),
                warnings |-> compatibility.warnings]

NoSoilAdvice ==
  [compatibility_score |-> <<0, 1>>, amendments |-> <<>>,
   irrigation_tips |-> NoObject, warnings |-> <<>>]

NoPredictRequest == [crop |-> "", soil_type |-> NoSoilType]

NoPredictResponse ==
  [status_code |-> 0, crop |-> "", has |-> {}, soil_specific_advice |-> NoSoilAdvice]

\* the response without soil_specific_advice
BaseResponse(crop) ==
  [status_code |-> 200, crop |-> crop, has |-> {"crop", "top3", "probs", "model_version"},
   soil_specific_advice |-> NoSoilAdvice]

\* the advice copied into the response field by field
WithSoilAdviceItems(response_data, soil_advice) ==
  [response_data EXCEPT
     !.has = @ \cup {"soil_specific_advice"},
     !.soil_specific_advice =
        [compatibility_score |-> soil_advice.compatibility_score,
         amendments |-> soil_advice.amendments,
         irrigation_tips |-> soil_advice.irrigation_tips,
         warnings |-> soil_advice.warnings]]

\* response_data["soil_specific_advice"] = {... soil_advice.compatibility_score ...}:
\* attribute access, which a dict answers with AttributeError; `except Exception`
\* then continues without the advice
WithSoilAdvice(response_data, soil_advice) ==
  IF soil_advice.type = "dict" THEN response_data
  ELSE WithSoilAdviceItems(response_data, soil_advice)

\* predict_crop_enhanced after the model's prediction; crop is top3[0]["crop"]
predict_crop_enhanced(data, crop, soil_type) ==
  IF soil_type = NoSoilType THEN BaseResponse(crop)
  ELSE IF ~validate_soil_type(data, soil_type) THEN BaseResponse(crop)
  ELSE LET soil_advice == generate_soil_advice(data, crop, soil_type)
       IN IF soil_advice.type = "NoneType" THEN BaseResponse(crop)
          ELSE WithSoilAdvice(BaseResponse(crop), soil_advice)

SoilRecords ==
  {NoObject}
  \cup {[has |-> {"amendments", "irrigation_guidance"} \ missing,
         amendments |-> amendments, irrigation_guidance |-> guidance] :
          missing \in {{}, {"amendments"}, {"irrigation_guidance"}},
          amendments \in {<<>>, <<Compost>>, <<Unnamed, Compost>>},
          guidance \in {DailyWatering, NoFrequency}}

CompatibilityMatrices ==
  {<<>>,
   <<[key |-> "wheat",
      value |-> <<[key |-> "sandy",
                   value |-> [score |-> <<3, 5>>,
                              warnings |-> <<"May need fertilization">>]]>>]>>,
   <<[key |-> "wheat",
      value |-> <<[key |-> "clay",
                   value |-> [score |-> <<4, 5>>, warnings |-> <<>>]]>>]>>}

\* soil_types.json as loaded at import time
SoilTypesData ==
  {NoSoilData}
  \cup {[has |-> {"soil_types", "compatibility_matrix"} \ missing,
         soil_types |-> <<[key |-> "sandy", value |-> sandy]>>,
         compatibility_matrix |-> matrix] :
          missing \in {{}, {"compatibility_matrix"}},
          sandy \in SoilRecords, matrix \in CompatibilityMatrices}

PredictRequests ==
  {[crop |-> crop, soil_type |-> soil_type] :
     crop \in {"wheat", "Wheat", "rice"}, soil_type \in {NoSoilType, "sandy", "peaty"}}

NoPrediction ==
  /\ soil_types_data = NoSoilData
  /\ predict_request = NoPredictRequest
  /\ predict_response = NoPredictResponse

(***************************************************************************)
(* The state after construction.                                           *)
(***************************************************************************)
NoLookupRequest == [api_name |-> <<>>, scientific_name |-> <<>>]

NoLocalMatch == [found |-> FALSE, entry |-> NoEntry]

NoLocalMatchCall ==
  /\ lookup_request = NoLookupRequest
  /\ local_match = NoLocalMatch

NoParseCall ==
  /\ suggestions_given = <<>>
  /\ parsed = <<>>

\* nothing is cached when the module has been imported
EmptyCaches == [get_soil_type_data |-> {}, get_compatibility_score |-> {}]

NoSoilCall == [function |-> "", crop_name |-> "", soil_type |-> "", returned |-> NoObject]

NoSoilCalls ==
  /\ lru_cache = EmptyCaches
  /\ soil_call = NoSoilCall

\* the handlers of main.py that call get_disease_identification_service: the
\* coroutine of /identify on the event loop, and /health and
\* /disease-service-status on threads of the thread pool
Handlers == {"identify_pest_disease", "health", "get_disease_service_status"}

\* the n-th DiseaseIdentificationService object constructed in the process
DiseaseIdentificationService(n) == [type |-> "DiseaseIdentificationService", id |-> n]

NoHandler == [pc |-> "idle", service |-> None, disease_service |-> None]

NoService ==
  /\ _disease_service_instance = None
  /\ constructed = 0
  /\ handlers = [h \in Handlers |-> NoHandler]

\* the module-level state when the process has started
ModuleFresh == NoLocalMatchCall /\ NoParseCall /\ NoSoilCalls /\ NoService

Idle ==
  /\ pc = "idle"
  /\ op = "none"
  /\ args = NoArgs
  /\ matches = <<>>
  /\ recs = <<>>
  /\ api_result = NoApiResult
  /\ fallback_result = "none"
  /\ lookup_fails = FALSE
  /\ collected = NoCollected
  /\ result = NoResult
  /\ primary_calls = 0
  /\ fallback_calls = 0
  /\ response = NoResponse
  /\ analysis = NoAnalysis
  /\ retry_count = 0
  /\ http_attempts = 0
  /\ last_outcome = NoOutcome
  /\ client_result = NoClientResult
  /\ client_calls = 0

\* the tasks that call identify_disease on the shared client
Calls == {"first", "second"}

NoConcurrentCalls ==
  /\ tasks = [c \in Calls |-> [pc |-> "idle", retry_count |-> 0]]
  /\ responses = [minute |-> 0, day |-> 0]

\* a client that has made no request yet
FreshClient ==
  /\ rate_limit = RateLimitInfo
  /\ clock = NoTimePassed

\* pestsAndDiseases.json as open() and json.load find it
DatabaseFiles == {"missing", "malformed", "valid"}

\* variant: the data is returned whatever the file was
LoadUnchecked(file, data) == data

\* data is what json.load returns for a valid file
_load_database(file, data) ==
  IF file \in {"missing", "malformed"} THEN Separate(<<>>) ELSE data

Init ==
  /\ database_file \in DatabaseFiles
  /\ database \in {_load_database(database_file, data) : data \in Databases}
  /\ primary_client = FALSE
  /\ FreshClient
  /\ Idle
  /\ ModuleFresh
  /\ NoConcurrentCalls
  /\ all_matches = <<>>
  /\ Optimized
  /\ NoPrediction

(***************************************************************************)
(* The lookup service's operations.                                        *)
(***************************************************************************)
SearchByName ==
  /\ pc = "idle"
  /\ \E query \in Queries, category \in Categories, min_confidence \in Thresholds :
    /\ pc' = "done"
    /\ op' = "search_by_name"
    /\ args' = [NoArgs EXCEPT !.query = query, !.category = category,
                              !.min_confidence = min_confidence]
    /\ matches' = search_by_name(database, query, category, min_confidence)
    /\ UNCHANGED <<endpoint_vars, concurrent_vars, all_matches, database_file, analysis, client_vars,
                 database, recs, primary_client, api_result, fallback_result,
                   lookup_fails, result, collected, primary_calls, fallback_calls, response>>

SearchBySymptoms ==
  /\ pc = "idle"
  /\ \E symptoms \in SymptomLists, crop_type \in CropTypes, min_confidence \in Thresholds :
    LET found == search_by_symptoms(database, symptoms, crop_type, min_confidence)
    IN /\ pc' = IF found.raised THEN "raised" ELSE "done"
       /\ op' = "search_by_symptoms"
       /\ args' = [NoArgs EXCEPT !.symptoms = symptoms, !.crop_type = crop_type,
                                 !.min_confidence = min_confidence]
       /\ matches' = found.matches
       /\ UNCHANGED <<endpoint_vars, concurrent_vars, all_matches, database_file, analysis, client_vars,
                 database, recs, primary_client, api_result, fallback_result,
                      lookup_fails, result, collected, primary_calls, fallback_calls, response>>

GetTreatmentRecommendations ==
  /\ pc = "idle"
  /\ \E i \in 1..Len(AllItems(database)), organic_only \in BOOLEAN :
    /\ pc' = "done"
    /\ op' = "get_treatment_recommendations"
    /\ args' = [NoArgs EXCEPT !.entry = AllItems(database)[i].entry,
                              !.organic_only = organic_only]
    /\ recs' = get_treatment_recommendations(AllItems(database)[i].entry, organic_only)
    /\ database' = WithTreatments(database, AllItems(database)[i].key,
                                  EntryTreatmentsAfter(AllItems(database)[i].entry, organic_only))
    /\ UNCHANGED <<endpoint_vars, concurrent_vars, all_matches, database_file, analysis, client_vars,
                 matches, primary_client, api_result, fallback_result,
                   lookup_fails, result, collected, primary_calls, fallback_calls, response>>

\* the symptoms argument: None or empty, one symptom, two symptoms, and three
\* and four symptoms of which one is "b"
AnalysisSymptoms ==
  {<<>>, <<SymptomPool[1]>>, <<SymptomPool[2], SymptomPool[3]>>,
   <<SymptomPool[3], <<"a">>, <<"a">> >>,
   <<SymptomPool[3], <<"a">>, <<"a">>, <<"a">> >>}

AnalysisCrops == {NoCrop, <<"t", "O">>}

GetComprehensiveAnalysis ==
  /\ pc = "idle"
  /\ \E query \in Queries, symptoms \in AnalysisSymptoms, crop_type \in AnalysisCrops :
    \E done \in {get_comprehensive_analysis(database, query, symptoms, crop_type)} :
      /\ pc' = IF done.raised THEN "raised" ELSE "done"
      /\ op' = "get_comprehensive_analysis"
      /\ args' = [NoArgs EXCEPT !.query = query, !.symptoms = symptoms,
                                !.crop_type = crop_type]
      /\ analysis' = done.results
      /\ UNCHANGED <<endpoint_vars, concurrent_vars, all_matches, database_file, client_vars, database, matches, recs, primary_client,
                     api_result, fallback_result, lookup_fails, result, collected,
                     primary_calls, fallback_calls, response>>

(***************************************************************************)
(* DiseaseIdentificationService.identify_disease, one step per await, and  *)
(* the end of the /identify handler that called it.                        *)
(***************************************************************************)
ApiResults ==
  {[kind |-> "success", suggestions |-> suggestions,
    confidence_level |-> _calculate_confidence_level(suggestions)] :
     suggestions \in SuggestionLists}
  \cup {[NoApiResult EXCEPT !.kind = "failure"], [NoApiResult EXCEPT !.kind = "exception"]}

FallbackResults == {"result", "exception", "timeout"}

fallback_matches ==
  << IdentificationMatch(
       UnableToIdentify, <<>>, <<3, 10>>, "unknown",
       "Primary identification service unavailable. Please consult local experts for accurate diagnosis.",
       <<"Visual inspection recommended", "Professional diagnosis needed">>, <<>>) >>

\* what FallbackApiClient.identify_disease returns of the fields named here
FallbackClientReturned ==
  [api_source |-> "enhanced_fallback_analysis",
   message |-> "Primary identification service unavailable. Providing comprehensive general guidance based on common plant issues."]

\* variant: the fallback result is not marked
Unmarked(built) == built

\* result["fallback_mode"] = True; result["message"] = ...
FallbackMode(built) ==
  [built EXCEPT !.has = @ \cup {"fallback_mode", "message"},
                !.fallback_mode = TRUE,
                !.message = "Primary identification service unavailable. Providing general guidance."]

\* variant: the call goes to the fallback client at once
IdentifyByFallback ==
  /\ pc = "idle"
  /\ op' = "identify_disease"
  /\ pc' = "await_fallback"
  /\ fallback_calls' = fallback_calls + 1
  /\ UNCHANGED <<endpoint_vars, concurrent_vars, all_matches, database_file, analysis,
                 client_vars, database, args, matches, recs, primary_client, api_result,
                 fallback_result, lookup_fails, result, collected, response, primary_calls>>

\* the call starts: the primary client is awaited if there is one, else the fallback client
IdentifyDisease ==
  /\ pc = "idle"
  /\ op' = "identify_disease"
  /\ IF primary_client
     THEN /\ pc' = "await_primary"
          /\ primary_calls' = primary_calls + 1
          /\ UNCHANGED fallback_calls
     ELSE /\ pc' = "await_fallback"
          /\ fallback_calls' = fallback_calls + 1
          /\ UNCHANGED primary_calls
  /\ UNCHANGED <<endpoint_vars, concurrent_vars, all_matches, database_file, analysis, client_vars,
                 database, args, matches, recs, primary_client, api_result,
                 fallback_result, lookup_fails, result, collected, response>>

\* primary_client.identify_disease returns or raises
PrimaryReturns ==
  /\ pc = "await_primary"
  /\ \E outcome \in ApiResults :
    /\ api_result' = outcome
    /\ IF outcome.kind = "success"
       THEN \E processed \in {ProcessMatches(
                                 database, _parse_plant_id_suggestions(outcome.suggestions))} :
              \E fails \in BOOLEAN :
                \E built \in _generate_comprehensive_result(
                                processed, outcome.confidence_level, "plant_id", fails) :
                   /\ result' = built
                   /\ collected' = processed
                 /\ lookup_fails' = fails
                 /\ pc' = "returned"
                 /\ UNCHANGED fallback_calls
       ELSE /\ pc' = "await_fallback"
            /\ fallback_calls' = fallback_calls + 1
            /\ UNCHANGED <<result, collected, lookup_fails>>
    /\ UNCHANGED <<endpoint_vars, concurrent_vars, all_matches, database_file, analysis, client_vars,
                 database, op, args, matches, recs, primary_client, fallback_result,
                   primary_calls, response>>

\* fallback_client.identify_disease returns or raises; nothing catches what it raises
FallbackReturns ==
  /\ pc = "await_fallback"
  /\ \E outcome \in FallbackResults :
    /\ fallback_result' = outcome
    /\ IF outcome = "result"
       THEN \E processed \in {ProcessMatches(database, fallback_matches)} :
            \E fails \in BOOLEAN :
              \E built \in _generate_comprehensive_result(
                              processed, "low", "fallback_analysis", fails) :
                /\ result' = FallbackMode(built)
                /\ collected' = processed
              /\ lookup_fails' = fails
              /\ pc' = "returned"
       ELSE /\ pc' = "raised"
            /\ UNCHANGED <<result, collected, lookup_fails>>
    /\ UNCHANGED <<endpoint_vars, concurrent_vars, all_matches, database_file, analysis, client_vars,
                 database, op, args, matches, recs, primary_client, api_result,
                   primary_calls, fallback_calls, response>>

get_fallback_expert_resources == DefaultExpertResources

_create_timeout_fallback_result ==
  [matches |->
     << IdentificationMatch("Service Timeout", <<>>, Zero, "service_error",
          "The identification service timed out.",
          <<"Service timeout", "High demand or network issues">>, <<>>) >>,
   treatments |->
     << [method |-> "consultation",
         treatment |-> "Expert consultation recommended due to service timeout"],
        [method |-> "cultural", treatment |-> "General plant health maintenance"] >>,
   prevention_tips |->
     << "Monitor plants regularly for early detection of issues",
        "Maintain good plant hygiene and proper spacing",
        "Ensure adequate but not excessive watering",
        "Provide appropriate lighting and nutrition",
        "Remove affected plant material promptly",
        "Keep detailed records of symptoms and changes",
        "Consider taking multiple photos from different angles for expert consultation" >>,
   expert_resources |-> get_fallback_expert_resources,
   confidence_level |-> "low",
   api_source |-> "timeout_fallback"]

_create_service_error_fallback_result ==
  [matches |->
     << IdentificationMatch("Identification Service Unavailable", <<>>, Zero,
          "service_error", "The disease identification service is temporarily unavailable.",
          <<"Service temporarily unavailable", "Technical issues">>, <<>>) >>,
   treatments |->
     << [method |-> "consultation", treatment |-> "Expert consultation recommended"],
        [method |-> "cultural", treatment |-> "General plant health maintenance"],
        [method |-> "organic", treatment |-> "Preventive organic treatment"] >>,
   prevention_tips |->
     << "Monitor plants regularly for early detection of issues",
        "Maintain good plant hygiene and proper spacing",
        "Ensure adequate but not excessive watering",
        "Provide appropriate lighting and nutrition",
        "Remove affected plant material promptly",
        "Practice crop rotation when possible",
        "Keep detailed records of symptoms and environmental conditions",
        "Take multiple photos from different angles for expert consultation" >>,
   expert_resources |-> get_fallback_expert_resources,
   confidence_level |-> "low",
   api_source |-> "service_error_fallback"]

\* the IdentificationResult built from the service's result
ApiResponse(identification_result) ==
  [matches |-> identification_result.matches,
   treatments |-> identification_result.treatments,
   prevention_tips |-> identification_result.prevention_tips,
   expert_resources |-> identification_result.expert_resources,
   confidence_level |-> identification_result.confidence_level,
   api_source |-> identification_result.api_source]

\* variant: every exception is answered as a service error
ServiceErrorResponse(raised) == _create_service_error_fallback_result

\* `except asyncio.TimeoutError` and `except Exception` around the service call
ExceptionResponse(raised) ==
  IF raised = "timeout" THEN _create_timeout_fallback_result
  ELSE _create_service_error_fallback_result

\* /identify after `await disease_service.identify_disease(...)`
IdentifyEndpointReturns ==
  /\ pc \in {"returned", "raised"}
  /\ pc' = "responded"
  /\ response' = IF pc = "returned" THEN ApiResponse(result)
                 ELSE ExceptionResponse(fallback_result)
  /\ UNCHANGED <<endpoint_vars, concurrent_vars, all_matches, database_file, analysis, client_vars,
                 database, op, args, matches, recs, primary_client, api_result,
                 fallback_result, lookup_fails, result, collected, primary_calls, fallback_calls>>

(***************************************************************************)
(* /identify up to the service call, one step per stage.                   *)
(***************************************************************************)
\* validate_image_file and the 422 raised on its errors
ValidateImageFile ==
  /\ stage = "received"
  /\ IF validate_image_file(upload).valid
     THEN /\ stage' = "validated"
          /\ UNCHANGED http_error
     ELSE /\ stage' = "failed"
          /\ http_error' = OuterHandlers(HTTPException(422, "validation_error"))
  /\ UNCHANGED <<upload, predict_vars, module_vars, backend_vars>>

\* `await image.read()`
ReadImage ==
  /\ stage = "validated"
  /\ IF upload.read = "read"
     THEN /\ stage' = "read"
          /\ UNCHANGED http_error
     ELSE /\ stage' = "failed"
          /\ http_error' = OuterHandlers(ReadHandlers(upload.read))
  /\ UNCHANGED <<upload, predict_vars, module_vars, backend_vars>>

\* `if len(image_data) == 0`
CheckEmpty ==
  /\ stage = "read"
  /\ IF upload.size = 0
     THEN /\ stage' = "failed"
          /\ http_error' = OuterHandlers(HTTPException(422, "empty_file_error"))
     ELSE /\ stage' = "nonempty"
          /\ UNCHANGED http_error
  /\ UNCHANGED <<upload, predict_vars, module_vars, backend_vars>>

OptimizeImage ==
  /\ stage = "nonempty"
  /\ IF optimize_image(upload) = "optimized"
     THEN /\ stage' = "optimized"
          /\ UNCHANGED http_error
     ELSE /\ stage' = "failed"
          /\ http_error' = OuterHandlers(OptimizeHandlers(optimize_image(upload)))
  /\ UNCHANGED <<upload, predict_vars, module_vars, backend_vars>>

\* `await disease_service.identify_disease(optimized_data, ...)`
CallIdentifyDisease ==
  /\ stage = "optimized"
  /\ IdentifyDisease

(***************************************************************************)
(* PlantIdClient.identify_disease, one step per await: the rate-limit      *)
(* check, each client.post, each backoff sleep.                            *)
(***************************************************************************)
ClientOp == "PlantIdClient.identify_disease"

service_vars ==
  <<endpoint_vars, concurrent_vars, all_matches, database, database_file, analysis, args, matches, recs, primary_client, api_result,
    fallback_result, lookup_fails, collected, result, primary_calls, fallback_calls,
    response>>

\* identify_disease up to the first client.post: the payload is built and
\* _make_api_request checks the rate limit
ClientIdentifyDisease ==
  /\ pc \in {"idle", "done"}
  /\ op \in {"none", ClientOp}
  /\ client_calls < MaxCalls
  /\ client_calls' = client_calls + 1
  /\ op' = ClientOp
  /\ rate_limit' = _reset_rate_limit_if_needed(rate_limit, clock)
  /\ clock' = NoTimePassed
  /\ retry_count' = 0
  /\ http_attempts' = 0
  /\ last_outcome' = NoOutcome
  /\ IF _check_rate_limit(rate_limit') # ""
     THEN /\ pc' = CatchApiError(PlantIdApiError("rate_limit_exceeded", 429)).pc
          /\ client_result' = CatchApiError(PlantIdApiError("rate_limit_exceeded", 429)).value
     ELSE /\ pc' = "posting"
          /\ client_result' = NoClientResult
  /\ UNCHANGED service_vars

\* one pass of the loop body: client.post and the branch on what it ended in
Post ==
  \E o \in HttpOutcomes :
    /\ pc = "posting"
    /\ http_attempts' = http_attempts + 1
    /\ last_outcome' = o
    /\ rate_limit' = IF Received(o) THEN _update_rate_limit(rate_limit) ELSE rate_limit
    /\ IF Retryable(o) /\ MayRetry(retry_count)
       THEN /\ pc' = "sleeping"
            /\ UNCHANGED client_result
       ELSE /\ pc' = AfterRequest(o).pc
            /\ client_result' = AfterRequest(o).value
    /\ UNCHANGED <<op, clock, retry_count, client_calls, service_vars>>

\* `await asyncio.sleep(delay)`, `retry_count += 1`, `continue`
Sleep ==
  /\ pc = "sleeping"
  /\ retry_count' = retry_count + 1
  /\ IF retry_count' < max_retries
     THEN /\ pc' = "posting"
          /\ UNCHANGED client_result
     ELSE /\ pc' = CatchApiError(PlantIdApiError("max_retries_exceeded", NoStatus)).pc
          /\ client_result' =
               CatchApiError(PlantIdApiError("max_retries_exceeded", NoStatus)).value
  /\ UNCHANGED <<op, rate_limit, clock, http_attempts, last_outcome, client_calls, service_vars>>

\* a minute has passed since window_start
MinutePasses ==
  /\ rate_limit.window_start # "None"
  /\ ~clock.minute
  /\ clock' = [clock EXCEPT !.minute = TRUE]
  /\ UNCHANGED <<pc, op, rate_limit, retry_count, http_attempts, last_outcome, client_result,
                 client_calls, service_vars>>

\* daily_reset is reached
DayPasses ==
  /\ ~clock.day
  /\ clock' = [clock EXCEPT !.day = TRUE]
  /\ UNCHANGED <<pc, op, rate_limit, retry_count, http_attempts, last_outcome, client_result,
                 client_calls, service_vars>>

Next ==
  \/ SearchByName
  \/ SearchBySymptoms
  \/ GetTreatmentRecommendations

Spec == Init /\ [][Next]_vars

(***************************************************************************)
(* The orchestrator over every knowledge base, with and without a primary  *)
(* client.                                                                 *)
(***************************************************************************)
InitIdentify ==
  /\ database \in Databases
  /\ database_file = "valid"
  /\ FreshClient
  /\ primary_client \in BOOLEAN
  /\ Idle
  /\ ModuleFresh
  /\ NoConcurrentCalls
  /\ all_matches = <<>>
  /\ Optimized
  /\ NoPrediction

NextIdentify ==
  \/ IdentifyDisease
  \/ PrimaryReturns
  \/ FallbackReturns
  \/ IdentifyEndpointReturns
  \/ GetTreatmentRecommendations

SpecIdentify == InitIdentify /\ [][NextIdentify]_vars

(***************************************************************************)
(* /identify from the upload to the response.                              *)
(***************************************************************************)
InitEndpoint ==
  /\ database = Separate(<<>>)
  /\ database_file = "valid"
  /\ FreshClient
  /\ primary_client \in BOOLEAN
  /\ Idle
  /\ ModuleFresh
  /\ NoConcurrentCalls
  /\ all_matches = <<>>
  /\ upload \in Uploads
  /\ stage = "received"
  /\ http_error = NoHttpError
  /\ NoPrediction

NextEndpoint ==
  \/ ValidateImageFile
  \/ ReadImage
  \/ CheckEmpty
  \/ OptimizeImage
  \/ CallIdentifyDisease
  \/ PrimaryReturns
  \/ FallbackReturns
  \/ IdentifyEndpointReturns

SpecEndpoint == InitEndpoint /\ [][NextEndpoint]_vars

(***************************************************************************)
(* POST /predict with valid features.                                      *)
(***************************************************************************)
PredictCropEnhanced ==
  /\ predict_response = NoPredictResponse
  /\ \E request \in PredictRequests :
       /\ predict_request' = request
       /\ predict_response' =
            predict_crop_enhanced(soil_types_data, request.crop, request.soil_type)
  /\ UNCHANGED <<soil_types_data, identify_vars, module_vars, backend_vars>>

InitPredict ==
  /\ database = Separate(<<>>)
  /\ database_file = "valid"
  /\ FreshClient
  /\ primary_client = FALSE
  /\ Idle
  /\ ModuleFresh
  /\ NoConcurrentCalls
  /\ all_matches = <<>>
  /\ Optimized
  /\ soil_types_data \in SoilTypesData
  /\ predict_request = NoPredictRequest
  /\ predict_response = NoPredictResponse

NextPredict == PredictCropEnhanced

SpecPredict == InitPredict /\ [][NextPredict]_vars

(***************************************************************************)
(* The two searches over knowledge bases whose entries all carry a         *)
(* category field, in both shapes.                                         *)
(***************************************************************************)
Categorised(db) ==
  \A i \in 1..Len(AllItems(db)) : "category" \in AllItems(db)[i].entry.has

InitShapes ==
  /\ database_file = "valid"
  /\ database \in {db \in Databases : Categorised(db)}
  /\ primary_client = FALSE
  /\ FreshClient
  /\ Idle
  /\ ModuleFresh
  /\ NoConcurrentCalls
  /\ all_matches = <<>>
  /\ Optimized
  /\ NoPrediction

NextShapes ==
  \/ SearchByName
  \/ SearchBySymptoms

SpecShapes == InitShapes /\ [][NextShapes]_vars

(***************************************************************************)
(* Requests one after another on one service, a name search being served   *)
(* while identify_disease awaits its client.                               *)
(***************************************************************************)
RequestDatabases ==
  {Combined(<<EntryPool[1], EntryPool[4]>>), Separate(<<EntryPool[1], EntryPool[4]>>)}

InitRequests ==
  /\ database_file = "valid"
  /\ database \in RequestDatabases
  /\ primary_client \in BOOLEAN
  /\ FreshClient
  /\ Idle
  /\ ModuleFresh
  /\ NoConcurrentCalls
  /\ all_matches = <<>>
  /\ Optimized
  /\ NoPrediction

\* a search_by_name request handled between the awaits of identify_disease
SearchWhileAwaiting ==
  /\ pc \in {"await_primary", "await_fallback"}
  /\ matches = <<>>
  /\ \E query \in {<<"a", "b">>, <<"b">>}, category \in Categories :
       /\ args' = [NoArgs EXCEPT !.query = query, !.category = category,
                                 !.min_confidence = <<4, 10>>]
       /\ matches' = search_by_name(database, query, category, <<4, 10>>)
  /\ UNCHANGED <<endpoint_vars, concurrent_vars, all_matches, database_file, analysis, client_vars,
                 database, pc, op, recs, primary_client, api_result, fallback_result,
                 lookup_fails, result, collected, primary_calls, fallback_calls, response>>

\* the request is over: its locals are dropped, the service objects stay
NextRequest ==
  /\ pc \in {"done", "raised", "responded"}
  /\ pc' = "idle"
  /\ op' = "none"
  /\ args' = NoArgs
  /\ matches' = <<>>
  /\ recs' = <<>>
  /\ api_result' = NoApiResult
  /\ fallback_result' = "none"
  /\ lookup_fails' = FALSE
  /\ collected' = NoCollected
  /\ result' = NoResult
  /\ primary_calls' = 0
  /\ fallback_calls' = 0
  /\ response' = NoResponse
  /\ analysis' = NoAnalysis
  /\ UNCHANGED <<endpoint_vars, concurrent_vars, all_matches, database_file, client_vars, database, primary_client>>

NextRequests ==
  \/ SearchByName
  \/ SearchBySymptoms
  \/ GetTreatmentRecommendations
  \/ GetComprehensiveAnalysis
  \/ IdentifyDisease
  \/ SearchWhileAwaiting
  \/ PrimaryReturns
  \/ FallbackReturns
  \/ IdentifyEndpointReturns
  \/ NextRequest

SpecRequests == InitRequests /\ [][NextRequests]_vars

(***************************************************************************)
(* _deduplicate_matches on every short list of matches.                    *)
(***************************************************************************)
\* matches.sort(...) sorts the caller's list in place; the unique matches are
\* a new list
DeduplicateMatches ==
  /\ pc = "idle"
  /\ pc' = "done"
  /\ op' = "_deduplicate_matches"
  /\ args' = [NoArgs EXCEPT !.matches = all_matches]
  /\ all_matches' = SortByConfidence(all_matches)
  /\ matches' = _deduplicate_matches(all_matches)
  /\ UNCHANGED <<endpoint_vars, concurrent_vars, database_file, analysis, client_vars,
                 database, recs, primary_client, api_result, fallback_result,
                 lookup_fails, result, collected, primary_calls, fallback_calls, response>>

InitDeduplicate ==
  /\ database_file = "valid"
  /\ database = Combined(<<EntryPool[1], EntryPool[2]>>)
  /\ primary_client = FALSE
  /\ FreshClient
  /\ Idle
  /\ ModuleFresh
  /\ NoConcurrentCalls
  /\ all_matches \in MatchLists
  /\ Optimized
  /\ NoPrediction

NextDeduplicate == DeduplicateMatches

SpecDeduplicate == InitDeduplicate /\ [][NextDeduplicate]_vars

(***************************************************************************)
(* get_treatment_recommendations over every short list of treatment        *)
(* records.                                                                *)
(***************************************************************************)
TreatmentLists == SeqsOver(TreatmentPool, MaxTreatments)

TreatmentDatabases ==
  {Combined(<<[key |-> "entry",
               entry |-> [NoEntry EXCEPT !.has = {"name", "treatments"},
                                         !.name = <<"a">>, !.treatments = treatments]]>>) :
     treatments \in TreatmentLists}
  \cup {Combined(<<[key |-> "entry",
                    entry |-> [NoEntry EXCEPT !.has = {"name"}, !.name = <<"a">>]]>>)}

InitTreatments ==
  /\ database \in TreatmentDatabases
  /\ database_file = "valid"
  /\ FreshClient
  /\ primary_client = FALSE
  /\ Idle
  /\ ModuleFresh
  /\ NoConcurrentCalls
  /\ all_matches = <<>>
  /\ Optimized
  /\ NoPrediction

NextTreatments == GetTreatmentRecommendations

SpecTreatments == InitTreatments /\ [][NextTreatments]_vars

(***************************************************************************)
(* get_comprehensive_analysis over every knowledge base.                   *)
(***************************************************************************)
NextAnalysis == GetComprehensiveAnalysis

SpecAnalysis == Init /\ [][NextAnalysis]_vars

(***************************************************************************)
(* The Plant.id client from every state of its limiter near the limits.    *)
(***************************************************************************)
\* counters the limiter can hold once a window has started
RateLimits ==
  {RateLimitInfo}
  \cup {[requests_made |-> m, window_start |-> "set", daily_requests |-> d] :
          m \in {0, max_requests_per_minute - 1, max_requests_per_minute},
          d \in {0, max_requests_per_day - 1, max_requests_per_day}}

InitClient ==
  /\ database = Separate(<<>>)
  /\ database_file = "valid"
  /\ primary_client = TRUE
  /\ rate_limit \in RateLimits
  /\ clock \in {[minute |-> m, day |-> d] :
                  m \in IF rate_limit.window_start = "None" THEN {FALSE} ELSE BOOLEAN,
                  d \in BOOLEAN}
  /\ Idle
  /\ ModuleFresh
  /\ NoConcurrentCalls
  /\ all_matches = <<>>
  /\ Optimized
  /\ NoPrediction

NextClient ==
  \/ ClientIdentifyDisease
  \/ Post
  \/ Sleep
  \/ MinutePasses
  \/ DayPasses

SpecClient == InitClient /\ [][NextClient]_vars

\* client.post ends within its timeout and a sleep ends after its delay
FairClient == SpecClient /\ WF_vars(Post) /\ WF_vars(Sleep)

(***************************************************************************)
(* Concurrent identify_disease calls on one PlantIdClient: the tasks run on *)
(* one event loop and give way only at `await client.post(...)` and         *)
(* `await asyncio.sleep(delay)`.                                            *)
(***************************************************************************)
\* what a client.post ends in, the body left aside
TaskOutcomes == {o \in HttpOutcomes : o.body = NoBody}

outside_tasks ==
  <<pc, op, retry_count, http_attempts, last_outcome, client_result, client_calls,
    endpoint_vars, all_matches, database, database_file, analysis, args, matches, recs,
    primary_client, api_result, fallback_result, lookup_fails, collected, result,
    primary_calls, fallback_calls, response>>

\* identify_disease up to the first client.post: _check_rate_limit
TaskStarts ==
  \E c \in Calls :
    /\ tasks[c].pc = "idle"
    /\ rate_limit' = _reset_rate_limit_if_needed(rate_limit, clock)
    /\ responses' =
         [minute |-> IF rate_limit.window_start = "None" \/ clock.minute THEN 0
                     ELSE responses.minute,
          day |-> IF clock.day THEN 0 ELSE responses.day]
    /\ clock' = NoTimePassed
    /\ tasks' = [tasks EXCEPT ![c] = [pc |-> IF _check_rate_limit(rate_limit') # ""
                                            THEN "done" ELSE "posting",
                                      retry_count |-> 0]]
    /\ UNCHANGED outside_tasks

\* client.post returns or raises; _update_rate_limit follows a response with
\* no await in between
TaskPosts ==
  \E c \in Calls :
    /\ tasks[c].pc = "posting"
    /\ \E o \in TaskOutcomes :
         /\ rate_limit' = IF Received(o) THEN _update_rate_limit(rate_limit) ELSE rate_limit
         /\ responses' = IF Received(o)
                         THEN [minute |-> responses.minute + 1, day |-> responses.day + 1]
                         ELSE responses
         /\ tasks' = [tasks EXCEPT ![c].pc = IF Retryable(o) /\ MayRetry(tasks[c].retry_count)
                                             THEN "sleeping" ELSE "done"]
    /\ UNCHANGED clock
    /\ UNCHANGED outside_tasks

\* `await asyncio.sleep(delay)`, `retry_count += 1`, `continue`
TaskSleeps ==
  \E c \in Calls :
    /\ tasks[c].pc = "sleeping"
    /\ tasks' = [tasks EXCEPT ![c] = [pc |-> IF tasks[c].retry_count + 1 < max_retries
                                            THEN "posting" ELSE "done",
                                      retry_count |-> tasks[c].retry_count + 1]]
    /\ UNCHANGED <<rate_limit, clock, responses>>
    /\ UNCHANGED outside_tasks

InitConcurrent ==
  /\ database = Separate(<<>>)
  /\ database_file = "valid"
  /\ primary_client = TRUE
  /\ rate_limit \in RateLimits
  /\ clock \in {[minute |-> m, day |-> d] :
                  m \in IF rate_limit.window_start = "None" THEN {FALSE} ELSE BOOLEAN,
                  d \in BOOLEAN}
  /\ Idle
  /\ ModuleFresh
  /\ tasks = [c \in Calls |-> [pc |-> "idle", retry_count |-> 0]]
  /\ responses = [minute |-> rate_limit.requests_made, day |-> rate_limit.daily_requests]
  /\ all_matches = <<>>
  /\ Optimized
  /\ NoPrediction

NextConcurrent ==
  \/ TaskStarts
  \/ TaskPosts
  \/ TaskSleeps
  \/ MinutePasses
  \/ DayPasses

SpecConcurrent == InitConcurrent /\ [][NextConcurrent]_vars

(***************************************************************************)
(* Properties of the name search.                                          *)
(***************************************************************************)
\* name, common_name, scientific_name and the alternative names of an entry
NameFields(entry) ==
  (IF "name" \in entry.has THEN {entry.name} ELSE {})
  \cup (IF "common_name" \in entry.has THEN {entry.common_name} ELSE {})
  \cup (IF "scientific_name" \in entry.has THEN {entry.scientific_name} ELSE {})
  \cup (IF "alternative_names" \in entry.has THEN Range(entry.alternative_names) ELSE {})

NormalizedQuery == Strip(Lower(args.query))

EqualsNameField(entry) == \E f \in NameFields(entry) : Lower(f) = NormalizedQuery

Visited ==
  IF op = "search_by_name" THEN NameSearchItems(database, args.category)
  ELSE SymptomSearchItems(database, args.crop_type)

Position(items, key) == CHOOSE i \in 1..Len(items) : items[i].key = key

\* C2: the list returned by search_by_name and by search_by_symptoms is
\* non-increasing in confidence, and results of equal confidence appear in the
\* order in which their entries were visited.
SortedByConfidence ==
  op \in {"search_by_name", "search_by_symptoms"} =>
    \A i, j \in 1..Len(matches) :
      i < j =>
        /\ Geq(matches[i].confidence, matches[j].confidence)
        /\ Eq(matches[i].confidence, matches[j].confidence) =>
             Position(Visited, matches[i].key) < Position(Visited, matches[j].key)

\* a search whose sort moved the entry visited second before the entry visited first
SortedByConfidenceWitness ==
  /\ op \in {"search_by_name", "search_by_symptoms"}
  /\ Len(matches) = 2
  /\ Gt(matches[1].confidence, matches[2].confidence)
  /\ Position(Visited, matches[1].key) > Position(Visited, matches[2].key)

BelowThreshold(entry) ==
  \A f \in NameFields(entry) :
    ~Geq(Ratio(NormalizedQuery, Lower(f)), args.min_confidence)

\* C3: when the similarity of the query to every name field of every entry is
\* below min_confidence, search_by_name returns an empty list; and every result
\* that is not an exact match has confidence >= min_confidence.
BelowThresholdExcluded ==
  op = "search_by_name" =>
    /\ (\A i \in 1..Len(AllItems(database)) : BelowThreshold(AllItems(database)[i].entry))
         => matches = <<>>
    /\ \A k \in 1..Len(matches) :
         matches[k].match_type # "exact" =>
           Geq(matches[k].confidence, args.min_confidence)

\* a query that resembles a name of the knowledge base, but less than the threshold asks
BelowThresholdWitness ==
  /\ op = "search_by_name"
  /\ args.category = NoCategory
  /\ AllItems(database) # <<>>
  /\ \A i \in 1..Len(AllItems(database)) : BelowThreshold(AllItems(database)[i].entry)
  /\ \E i \in 1..Len(AllItems(database)) :
       \E f \in NameFields(AllItems(database)[i].entry) :
         Gt(Ratio(NormalizedQuery, Lower(f)), Zero)
  /\ matches = <<>>

(***************************************************************************)
(* Properties of the symptom search.                                       *)
(***************************************************************************)
\* every input symptom, lowercased and stripped, is a lowercased symptom of the entry
AllSymptomsExact(symptoms, entry) ==
  /\ symptoms # <<>>
  /\ "symptoms" \in entry.has
  /\ \A i \in 1..Len(symptoms) :
       \E j \in 1..Len(entry.symptoms) :
         Strip(Lower(symptoms[i])) = Lower(entry.symptoms[j])

\* every input symptom equals a symptom of the entry, ignoring case
AllSymptomsEqualIgnoringCase(symptoms, entry) ==
  /\ symptoms # <<>>
  /\ "symptoms" \in entry.has
  /\ \A i \in 1..Len(symptoms) :
       \E j \in 1..Len(entry.symptoms) : Lower(symptoms[i]) = Lower(entry.symptoms[j])

GivenConfidenceOne(key) ==
  \E k \in 1..Len(matches) : matches[k].key = key /\ Eq(matches[k].confidence, One)

\* C4: for a non-empty symptom list in which every symptom, after lowercasing
\* and stripping, equals a lowercased symptom of a visited entry,
\* search_by_symptoms gives that entry a confidence of exactly 1.0, however many
\* further symptoms the entry has.
ExactSymptomsGiveOne ==
  op = "search_by_symptoms" =>
    \A i \in 1..Len(Visited) :
      AllSymptomsExact(args.symptoms, Visited[i].entry) => GivenConfidenceOne(Visited[i].key)

\* two input symptoms, one of them padded and capitalised, against an entry
\* that has them and a further symptom
ExactSymptomsWitness ==
  /\ op = "search_by_symptoms"
  /\ Len(args.symptoms) = 2
  /\ \E n \in 1..2 : args.symptoms[n] # Strip(Lower(args.symptoms[n]))
  /\ \E i \in 1..Len(Visited) :
       /\ AllSymptomsExact(args.symptoms, Visited[i].entry)
       /\ Len(Visited[i].entry.symptoms) > 2
       /\ GivenConfidenceOne(Visited[i].key)

\* C4 as stated: for a non-empty symptom list in which every symptom equals,
\* ignoring case, a symptom of a visited entry, search_by_symptoms gives that
\* entry a confidence of exactly 1.0.
EqualSymptomsGiveOne ==
  op = "search_by_symptoms" =>
    \A i \in 1..Len(Visited) :
      AllSymptomsEqualIgnoringCase(args.symptoms, Visited[i].entry) =>
        GivenConfidenceOne(Visited[i].key)

(***************************************************************************)
(* Properties of identify_disease and of the results handed to a caller.   *)
(***************************************************************************)
\* there is no primary client, or its call raised or reported success=false
PrimaryUnavailable == ~primary_client \/ api_result.kind \in {"failure", "exception"}

\* C5: when no primary client is configured, or the primary client's call
\* raises or returns success=false, identify_disease calls the fallback client,
\* and the result it returns after that call has api_source
\* "fallback_analysis", confidence_level "low", fallback_mode true and a
\* non-empty expert_resources.
FallbackResultReturned ==
  (op = "identify_disease" /\ PrimaryUnavailable) =>
    /\ fallback_calls = 1
    /\ fallback_result = "result" =>
         /\ result.api_source = "fallback_analysis"
         /\ result.confidence_level = "low"
         /\ "fallback_mode" \in result.has
         /\ result.fallback_mode
         /\ result.expert_resources # <<>>

\* the primary client raised and the call returned the fallback result
FallbackResultWitness ==
  /\ op = "identify_disease"
  /\ primary_calls = 1
  /\ api_result.kind = "exception"
  /\ pc = "returned"
  /\ result.fallback_mode
  /\ result.expert_resources # <<>>

\* C6 as stated: identify_disease never propagates an exception to its
\* caller, whatever the primary client and the fallback client do.
NeverPropagates == op = "identify_disease" => pc # "raised"

\* C7: every identification result handed to a caller, from the primary path,
\* the fallback client, the timeout fallback or the service-error fallback,
\* has a non-empty expert_resources; when the lookup service's expert
\* resources cannot be obtained it is the three default resources (extension
\* service, diagnostic lab, consultant).
ExpertResourcesNeverEmpty ==
  /\ result.has # {} =>
       /\ result.expert_resources # <<>>
       /\ lookup_fails =>
            [i \in 1..Len(result.expert_resources) |-> result.expert_resources[i].type]
              = <<"extension_service", "university", "consultant">>
  /\ pc = "responded" => response.expert_resources # <<>>

\* a response built from a result made while the lookup service's resources failed
ExpertResourcesWitness ==
  /\ pc = "responded"
  /\ lookup_fails
  /\ Len(result.expert_resources) = 3
  /\ response.expert_resources = result.expert_resources

\* C8: get_treatment_recommendations returns an empty list for an entry with
\* no treatments field; a result built by _generate_comprehensive_result has
\* exactly the two general treatments (cultural, organic) when no treatment
\* was collected for any match, and its treatments are never empty.
TreatmentsNeverEmpty ==
  /\ (op = "get_treatment_recommendations" /\ "treatments" \notin args.entry.has) =>
       recs = <<>>
  /\ result.has # {} =>
       /\ result.treatments # <<>>
       /\ collected.all_treatments = <<>> =>
            /\ result.treatments = GeneralTreatments
            /\ [i \in 1..Len(result.treatments) |-> result.treatments[i].method]
                 = <<"cultural", "organic">>

\* the primary client's finding was matched to an entry that has no treatments
\* field, and the result carries the general treatments
TreatmentsWitness ==
  /\ api_result.kind = "success"
  /\ result.has # {}
  /\ result.matches # <<>>
  /\ \E i \in 1..Len(AllItems(database)) :
       /\ "treatments" \notin AllItems(database)[i].entry.has
       /\ result.matches[1].name = AllItems(database)[i].entry.name
  /\ result.treatments = GeneralTreatments

\* C9: in every result built by _generate_comprehensive_result, prevention_tips
\* has no duplicate, contains exactly the distinct tips of the entries matched
\* in the knowledge base, and is the five general tips when those entries
\* supplied none.
PreventionTipsDistinct ==
  result.has # {} =>
    /\ Distinct(result.prevention_tips)
    /\ collected.all_prevention_tips # <<>> =>
         Range(result.prevention_tips) = Range(collected.all_prevention_tips)
    /\ collected.all_prevention_tips = <<>> =>
         /\ result.prevention_tips = GeneralPreventionTips
         /\ Len(result.prevention_tips) = 5

\* the matched entries repeat a tip, and the result lists each tip once
PreventionTipsWitness ==
  /\ result.has # {}
  /\ ~Distinct(collected.all_prevention_tips)
  /\ Len(result.prevention_tips) >= 2
  /\ Len(result.prevention_tips) < Len(collected.all_prevention_tips)

(***************************************************************************)
(* Properties of get_treatment_recommendations.                            *)
(***************************************************************************)
\* the place of the first record of the entry with this treatment text
RecordPosition(treatment) ==
  CHOOSE i \in 1..Len(args.entry.treatments) :
    /\ args.entry.treatments[i].treatment = treatment
    /\ \A j \in 1..(i - 1) : args.entry.treatments[j].treatment # treatment

SameKey(x, y) == x.priority = y.priority /\ Eq(x.effectiveness, y.effectiveness)

\* each recommendation comes from a record of its own, and recommendations with
\* equal keys come from records in that order
InRecordOrder ==
  \E from \in [1..Len(recs) -> 1..Len(args.entry.treatments)] :
    \A i \in 1..Len(recs) :
      /\ recs[i].treatment = args.entry.treatments[from[i]].treatment
      /\ \A j \in 1..Len(recs) :
           /\ i # j => from[i] # from[j]
           /\ (i < j /\ SameKey(recs[i], recs[j])) => from[i] < from[j]

AbsentFieldsDefaulted ==
  op = "get_treatment_recommendations" =>
    \A i \in 1..Len(recs), j \in 1..Len(args.entry.treatments) :
      args.entry.treatments[j].treatment = recs[i].treatment =>
        /\ "priority" \notin args.entry.treatments[j].has =>
             recs[i].priority =
               IF LowerWord(Get(args.entry.treatments[j], "method", ""))
                    \in {"organic", "cultural"}
               THEN 1 ELSE 2
        /\ "effectiveness" \notin args.entry.treatments[j].has =>
             Eq(recs[i].effectiveness, <<7, 10>>)

(***************************************************************************)
(* Properties of the Plant.id client.                                      *)
(***************************************************************************)
\* a call of identify_disease is between its first client.post and its return
Requesting == op = ClientOp /\ pc \in {"posting", "sleeping"}

\* the call has ended with a failure value
FailureReturned ==
  /\ pc = "done"
  /\ ~client_result.success
  /\ {"success", "error"} \subseteq client_result.has

\* C12: one call sends at most 3 HTTP attempts; an attempt is followed by a
\* backoff and another attempt only if it ended in HTTP 429, HTTP >= 500, a
\* timeout or a network error and fewer than 3 attempts have been made; after
\* the third such failure the call ends with an error; every call terminates.
AttemptsBoundedAndCallEnds ==
  /\ [](op = ClientOp =>
          /\ http_attempts <= 3
          /\ Requesting /\ http_attempts > 0 =>
               Retryable(last_outcome) /\ http_attempts < 3
          /\ http_attempts = 3 /\ Retryable(last_outcome) => FailureReturned)
  /\ (Requesting ~> (op = ClientOp /\ pc \in {"done", "raised"}))

ThirdFailureWitness ==
  /\ op = ClientOp
  /\ http_attempts = 3
  /\ Retryable(last_outcome)
  /\ FailureReturned

\* the latest attempt was answered with a 200 whose JSON body has no suggestions
MissingSuggestions ==
  /\ Received(last_outcome)
  /\ last_outcome.status = 200
  /\ last_outcome.body.json
  /\ "suggestions" \notin last_outcome.body.has

CallStarts == op' = ClientOp /\ client_calls' = client_calls + 1

\* the call that starts in this step is refused without a request and leaves
\* both counters as they were
RefusedUntouched ==
  /\ pc' = "done"
  /\ http_attempts' = 0
  /\ rate_limit'.requests_made = rate_limit.requests_made
  /\ rate_limit'.daily_requests = rate_limit.daily_requests
  /\ ~client_result'.success
  /\ client_result'.error_type = "rate_limit_exceeded"

GoodResponse ==
  /\ Received(last_outcome)
  /\ last_outcome.status = 200
  /\ last_outcome.body.json
  /\ {"id", "suggestions"} \subseteq last_outcome.body.has
  /\ last_outcome.body.suggestions = <<>> \/ last_outcome.body.typed

AnalysisWithoutSymptoms ==
  op = "get_comprehensive_analysis" /\ args.symptoms = <<>> =>
    /\ pc = "done"
    /\ analysis.expert_resources # <<>>

EmptyQueryAnalysisWitness ==
  /\ op = "get_comprehensive_analysis"
  /\ pc = "done"
  /\ args.symptoms = <<>>
  /\ Strip(args.query) = <<>>
  /\ AllItems(database) = <<>>
  /\ analysis.name_matches = <<>>
  /\ Len(analysis.expert_resources) = 3

(***************************************************************************)
(* Properties of the orchestrator's fallback and of its matches.           *)
(***************************************************************************)
\* C18 as stated: when the primary client is absent or has failed and the
\* fallback client has returned, the result identify_disease returns carries
\* the api_source and the message that the fallback client returned.
FallbackSourceCarried ==
  pc = "returned" /\ fallback_result = "result" =>
    /\ result.api_source = FallbackClientReturned.api_source
    /\ result.message = FallbackClientReturned.message

\* the matches the primary client's answer was parsed into
ApiMatches == _parse_plant_id_suggestions(api_result.suggestions)

EnrichedFields == {"name", "scientific_name", "category", "description", "symptoms", "images"}

\* processed is match with the fields the entry has taken from the entry
EnrichedFrom(processed, match, entry) ==
  /\ processed.confidence = match.confidence
  /\ \A f \in EnrichedFields :
       processed[f] = IF f \in entry.has THEN entry[f] ELSE match[f]

\* C19: the result built from the vision API's matches has as many matches, in
\* the same order; each keeps the API's confidence and is either the API's
\* match unchanged or that match with name, scientific_name, category,
\* description, symptoms and images taken from one entry of the knowledge
\* base, each only where the entry has the field.
MatchesEnrichedInPlace ==
  pc = "returned" /\ api_result.kind = "success" =>
    /\ Len(result.matches) = Len(ApiMatches)
    /\ \A i \in 1..Len(result.matches) :
         /\ result.matches[i].confidence = ApiMatches[i].confidence
         /\ \/ result.matches[i] = ApiMatches[i]
            \/ \E k \in 1..Len(AllItems(database)) :
                 EnrichedFrom(result.matches[i], ApiMatches[i], AllItems(database)[k].entry)

EnrichedMatchWitness ==
  /\ pc = "returned"
  /\ api_result.kind = "success"
  /\ Len(result.matches) = 2
  /\ result.matches[1] # ApiMatches[1]
  /\ result.matches[1].confidence = ApiMatches[1].confidence
  /\ result.matches[2] = ApiMatches[2]

UploadValid == validate_image_file(upload).valid

UploadRead == UploadValid /\ upload.read = "read"

UploadNonEmpty == UploadRead /\ upload.size # 0

UploadOptimized == UploadNonEmpty /\ upload.decodable

ServiceNotInvoked ==
  /\ pc = "idle"
  /\ primary_calls = 0
  /\ fallback_calls = 0
  /\ response = NoResponse

\* C21: the stages of /identify run in the order validation, read, empty-file
\* check, optimization, identification; the first stage that fails alone
\* decides the response (422 validation_error, 422 empty_file_error, 422
\* image_processing_error), the outer handlers leave that HTTP error as it is
\* (no 500, no fallback result), and the identification service is invoked
\* only when every earlier stage has passed.
FirstFailingStageDecides ==
  /\ stage = "failed" =>
       /\ http_error.exception = "HTTPException"
       /\ http_error.status_code # 500
       /\ ~UploadValid => http_error = HTTPException(422, "validation_error")
       /\ UploadValid /\ ~UploadRead => http_error.error_type \in {"timeout_error", "file_read_error"}
       /\ UploadRead /\ ~UploadNonEmpty => http_error = HTTPException(422, "empty_file_error")
       /\ UploadNonEmpty /\ ~UploadOptimized =>
            http_error = HTTPException(422, "image_processing_error")
       /\ ~UploadOptimized
       /\ ServiceNotInvoked
  /\ stage # "failed" => http_error = NoHttpError
  /\ stage = "validated" => UploadValid
  /\ stage = "read" => UploadRead
  /\ stage = "nonempty" => UploadNonEmpty
  /\ stage = "optimized" => UploadOptimized
  /\ ~ServiceNotInvoked => stage = "optimized"

\* an empty upload of the wrong type is answered by the validation stage
InvalidEmptyUploadWitness ==
  /\ stage = "failed"
  /\ upload.size = 0
  /\ ~UploadValid
  /\ http_error = HTTPException(422, "validation_error")

\* the soil type of the request is supported and has data
SupportedSoil ==
  /\ predict_request.soil_type # NoSoilType
  /\ validate_soil_type(soil_types_data, predict_request.soil_type)
  /\ get_soil_type_data(soil_types_data, predict_request.soil_type) # NoObject

RequestedSoilData == get_soil_type_data(soil_types_data, predict_request.soil_type)

\* C22: a /predict request with a supported soil type that has data is
\* answered with soil_specific_advice whose compatibility_score and warnings
\* are those of the compatibility matrix for (top crop, soil type) and whose
\* amendments and irrigation tips are those of the soil type; with an
\* unsupported soil type the request succeeds without soil_specific_advice.
SoilAdviceInResponse ==
  predict_response # NoPredictResponse =>
    /\ predict_response.status_code = 200
    /\ SupportedSoil =>
         /\ "soil_specific_advice" \in predict_response.has
         /\ predict_response.soil_specific_advice.compatibility_score =
              get_compatibility_score(soil_types_data, predict_request.crop,
                                      predict_request.soil_type).score
         /\ predict_response.soil_specific_advice.warnings =
              get_compatibility_score(soil_types_data, predict_request.crop,
                                      predict_request.soil_type).warnings
         /\ "amendments" \in RequestedSoilData.has =>
              predict_response.soil_specific_advice.amendments =
                Amendments(RequestedSoilData.amendments)
         /\ "irrigation_guidance" \in RequestedSoilData.has =>
              predict_response.soil_specific_advice.irrigation_tips =
                irrigation_guidance(RequestedSoilData.irrigation_guidance)
    /\ ~SupportedSoil => "soil_specific_advice" \notin predict_response.has

\* the same entries in the other on-disk shape: the combined mapping split by
\* category (pests under "pests", every other entry under "diseases"), the
\* separate mappings merged
OtherShape(db) ==
  IF "pests_diseases" \in db.has THEN Separate(db.pests_diseases)
  ELSE Combined(AllItems(db))

ResultSet(results) ==
  {<<results[i].key, results[i].confidence, results[i].match_type>> : i \in 1..Len(results)}

\* every entry is a pest or a disease
PestsAndDiseasesOnly(db) ==
  \A i \in 1..Len(AllItems(db)) :
    Get(AllItems(db)[i].entry, "category", "") \in {"pest", "disease"}

SameInOtherShape ==
  /\ pc = "done" /\ op = "search_by_name" =>
       \E other \in {search_by_name(OtherShape(database), args.query, args.category,
                                    args.min_confidence)} :
         ResultSet(matches) = ResultSet(other)
  /\ pc \in {"done", "raised"} /\ op = "search_by_symptoms" =>
       \E other \in {search_by_symptoms(OtherShape(database), args.symptoms, args.crop_type,
                                        args.min_confidence)} :
         /\ other.raised = (pc = "raised")
         /\ ResultSet(matches) = ResultSet(other.matches)

\* C23 as stated: for every combined mapping whose entries have category
\* fields and the same entries as separate pests and diseases mappings,
\* search_by_name and search_by_symptoms return the same set of (key,
\* confidence, match_type), without a category filter and with each one.
ShapesTransparent == SameInOtherShape

\* C23, amended: the two shapes give the same set of (key, confidence,
\* match_type) for every query, symptom list, crop type, threshold and category
\* filter ("pests", "diseases" or none) when every entry's category is pest or
\* disease and the separate shape files it under the mapping of its category.
ShapesTransparentForPestsAndDiseases ==
  PestsAndDiseasesOnly(database) => SameInOtherShape

\* a filtered name search over a base holding a pest and a disease
FilteredSearchBothShapesWitness ==
  /\ pc = "done"
  /\ op = "search_by_name"
  /\ args.category = "diseases"
  /\ PestsAndDiseasesOnly(database)
  /\ Len(AllItems(database)) = 2
  /\ \E i \in 1..2 : IsPest(AllItems(database)[i])
  /\ Len(matches) = 1

\* C24: once the knowledge base is loaded, no operation (search_by_name,
\* search_by_symptoms, get_treatment_recommendations,
\* get_comprehensive_analysis with its _deduplicate_matches, identify_disease
\* and the building of its result) changes an entry or the set of entries, in
\* any sequence or interleaving of requests.
KnowledgeBaseUnchanged == [][database' = database]_vars

\* a name search has been answered while identify_disease awaits the primary client
SecondRequestWitness ==
  /\ pc = "await_primary"
  /\ matches # <<>>
  /\ database \in RequestDatabases

\* the positions of the matches given that carry the key
WithKey(given, key) == {j \in 1..Len(given) : given[j].key = key}

\* the first position among them whose confidence none of them exceeds
FirstGreatest(given, key) ==
  CHOOSE j \in WithKey(given, key) :
    /\ \A k \in WithKey(given, key) : Geq(given[j].confidence, given[k].confidence)
    /\ \A k \in WithKey(given, key) :
         k < j => ~Geq(given[k].confidence, given[j].confidence)

\* C25: for every list of matches _deduplicate_matches returns a list sorted
\* by confidence descending in which no key occurs twice and every key of the
\* input occurs once, the result kept for a key being the one of greatest
\* confidence among the inputs with that key, the first-seen among equals;
\* applying it again to its result gives the result.
DeduplicateLaws ==
  pc = "done" /\ op = "_deduplicate_matches" =>
    /\ \A i, j \in 1..Len(matches) :
         i < j => /\ Geq(matches[i].confidence, matches[j].confidence)
                  /\ matches[i].key # matches[j].key
    /\ {matches[i].key : i \in 1..Len(matches)} =
         {args.matches[j].key : j \in 1..Len(args.matches)}
    /\ \A i \in 1..Len(matches) :
         matches[i] = args.matches[FirstGreatest(args.matches, matches[i].key)]
    /\ _deduplicate_matches(matches) = matches

\* two results for one key with equal confidence written differently, the
\* later one given first, and a better result for another key after them
EqualConfidencesWitness ==
  /\ pc = "done"
  /\ op = "_deduplicate_matches"
  /\ Len(args.matches) = 3
  /\ args.matches[1].key = args.matches[2].key
  /\ args.matches[1].confidence = <<5, 10>>
  /\ args.matches[2].confidence = <<1, 2>>
  /\ args.matches[1].match_type # args.matches[2].match_type
  /\ matches = <<args.matches[3], args.matches[1]>>

ConfidenceInUnitInterval ==
  op \in {"search_by_name", "search_by_symptoms"} =>
    \A i \in 1..Len(matches) :
      /\ Geq(matches[i].confidence, Zero)
      /\ Geq(One, matches[i].confidence)

\* a symptom search with threshold 0 returns an entry of confidence 0 next to
\* one of confidence 1
BothEndsWitness ==
  /\ pc = "done"
  /\ op = "search_by_symptoms"
  /\ Len(matches) = 2
  /\ Eq(matches[1].confidence, One)
  /\ Eq(matches[2].confidence, Zero)

StatedScore(symptom, entry_symptoms) ==
  IF symptom \in Range(entry_symptoms) THEN 10
  ELSE IF \E e \in Range(entry_symptoms) :
            \/ IsSubstring(symptom, e)
            \/ IsSubstring(e, symptom)
            \/ Gt(Ratio(symptom, e), <<7, 10>>)
       THEN 7
       ELSE 0

RECURSIVE StatedSum(_, _)
StatedSum(symptoms, entry_symptoms) ==
  IF symptoms = <<>> THEN 0
  ELSE StatedScore(Head(symptoms), entry_symptoms) + StatedSum(Tail(symptoms), entry_symptoms)

\* min(1.0, S / n) in double arithmetic, 0.0 for an entry without symptoms
StatedConfidence(symptoms, entry) ==
  IF "symptoms" \notin entry.has \/ entry.symptoms = <<>> THEN Zero
  ELSE Only({IF Gt(q, One) THEN One ELSE q :
               q \in {FloatQuotient(StatedSum(symptoms, LowerAll(entry.symptoms)),
                                    Len(symptoms))}})

\* C29: the symptom confidence of an entry is min(1.0, S / n), n the number of
\* input symptoms and S the sum over them of 1.0 for one that equals an entry
\* symptom, else 0.7 for one that an entry symptom contains, that contains an
\* entry symptom or that has similarity above 0.7 to one, else 0; an entry
\* without symptoms scores 0.0; the entry is returned, with match_type
\* "symptom", exactly when that confidence is >= min_confidence.
SymptomConfidenceAsStated ==
  pc = "done" /\ op = "search_by_symptoms" =>
    /\ \A i \in 1..Len(Visited) :
         \E c \in {StatedConfidence(StripLowerAll(args.symptoms), Visited[i].entry)} :
           IF Geq(c, args.min_confidence)
           THEN \E k \in 1..Len(matches) :
                  /\ matches[k].key = Visited[i].key
                  /\ matches[k].confidence = c
                  /\ matches[k].match_type = "symptom"
           ELSE \A k \in 1..Len(matches) : matches[k].key # Visited[i].key
    /\ \A k \in 1..Len(matches) :
         \E i \in 1..Len(Visited) : Visited[i].key = matches[k].key

\* one symptom matched exactly and one partially give 0.85; an entry without
\* symptoms is left out at threshold 0.4
MixedScoreWitness ==
  /\ pc = "done"
  /\ op = "search_by_symptoms"
  /\ Len(args.symptoms) = 2
  /\ args.min_confidence = <<4, 10>>
  /\ Len(Visited) = 2
  /\ Len(matches) = 1
  /\ Eq(matches[1].confidence, <<17, 20>>)
  /\ \E i \in 1..2 : "symptoms" \notin Visited[i].entry.has

\* the fields of the entry in the order they are checked, each with the
\* match_type it stands for
FieldsInOrder(entry) ==
  (IF "name" \in entry.has THEN <<[text |-> entry.name, match_type |-> "fuzzy"]>> ELSE <<>>)
  \o (IF "common_name" \in entry.has
      THEN <<[text |-> entry.common_name, match_type |-> "fuzzy"]>> ELSE <<>>)
  \o (IF "scientific_name" \in entry.has
      THEN <<[text |-> entry.scientific_name, match_type |-> "scientific"]>> ELSE <<>>)
  \o (IF "alternative_names" \in entry.has
      THEN [i \in 1..Len(entry.alternative_names) |->
              [text |-> entry.alternative_names[i], match_type |-> "alternative"]]
      ELSE <<>>)

FieldRatios(query, fields) == [i \in 1..Len(fields) |-> Ratio(query, Lower(fields[i].text))]

IsMaximum(ratios, i) == \A j \in 1..Len(ratios) : Geq(ratios[i], ratios[j])

\* the first field that attains the maximum ratio
FirstMaximum(ratios) ==
  CHOOSE i \in 1..Len(ratios) :
    /\ IsMaximum(ratios, i)
    /\ \A j \in 1..(i - 1) : ~IsMaximum(ratios, j)

FuzzyResultAsStated(match) ==
  \E fields \in {FieldsInOrder(match.entry)} :
    \E ratios \in {FieldRatios(NormalizedQuery, fields)} :
      /\ fields # <<>>
      /\ match.confidence = ratios[FirstMaximum(ratios)]
      /\ match.match_type = fields[FirstMaximum(ratios)].match_type

\* C30: for an entry without an exact match, the confidence of the fuzzy result
\* is the greatest similarity ratio over the entry's name, common_name,
\* scientific_name and alternative names, and its match_type is that of the
\* field that attained it ("fuzzy" for name and common_name, "scientific" for
\* scientific_name, "alternative" for an alternative name), the field checked
\* first winning a tie.
FuzzyResultIsFirstMaximum ==
  op = "search_by_name" =>
    \A k \in 1..Len(matches) :
      matches[k].match_type # "exact" => FuzzyResultAsStated(matches[k])

\* a fuzzy result whose greatest ratio is attained by two fields of different
\* match_type
TiedFieldsWitness ==
  /\ op = "search_by_name"
  /\ \E k \in 1..Len(matches) :
       /\ matches[k].match_type # "exact"
       /\ \E fields \in {FieldsInOrder(matches[k].entry)} :
            \E ratios \in {FieldRatios(NormalizedQuery, fields)} :
              \E i, j \in 1..Len(fields) :
                /\ i < j
                /\ IsMaximum(ratios, i)
                /\ IsMaximum(ratios, j)
                /\ fields[i].match_type # fields[j].match_type

(***************************************************************************)
(* The comprehensive analysis over a knowledge base of five entries.       *)
(***************************************************************************)
\* an entry with a name of five characters and one symptom
Scab ==
  [key |-> "scab",
   entry |-> [NoEntry EXCEPT
     !.has = {"name", "symptoms", "treatments"},
     !.name = <<"b", "b", "a", "b", "b">>,
     !.symptoms = << <<"b", "b", "b">> >>,
     !.treatments = <<TreatmentPool[1]>>]]

\* every entry of the pool and scab, and the same with a fourth treatment for
\* aphids
FullDatabases ==
  {Combined(EntryPool \o <<Scab>>), Separate(EntryPool \o <<Scab>>),
   WithTreatments(Combined(EntryPool \o <<Scab>>), "aphids",
                  EntryPool[1].entry.treatments \o <<TreatmentPool[5]>>)}

InitTopMatches ==
  /\ database_file = "valid"
  /\ database \in FullDatabases
  /\ primary_client = FALSE
  /\ FreshClient
  /\ Idle
  /\ ModuleFresh
  /\ NoConcurrentCalls
  /\ all_matches = <<>>
  /\ Optimized
  /\ NoPrediction

NextTopMatches == GetComprehensiveAnalysis

SpecTopMatches == InitTopMatches /\ [][NextTopMatches]_vars

\* the greatest confidence among the given matches of the key
BestOf(given, key) ==
  CHOOSE c \in {given[i].confidence : i \in WithKey(given, key)} :
    \A i \in WithKey(given, key) : Geq(c, given[i].confidence)

KeysOf(given) == {given[i].key : i \in 1..Len(given)}

FirstFive(given) == [i \in 1..(IF Len(given) < 5 THEN Len(given) ELSE 5) |->
                       _match_result_to_dict(given[i])]

AnalysisAsStated(results, name_matches, symptom_matches) ==
  \E given \in {name_matches \o symptom_matches} :
    \E keys \in {KeysOf(given)} :
      /\ results.name_matches = FirstFive(name_matches)
      /\ results.symptom_matches = FirstFive(symptom_matches)
      /\ Len(results.combined_recommendations) <= 3
      /\ \A i \in 1..Len(results.combined_recommendations) :
           \E item \in {results.combined_recommendations[i]} :
             /\ item.pest_disease \in keys
             /\ item.confidence = BestOf(given, item.pest_disease)
             /\ Cardinality({k \in keys : Gt(BestOf(given, k), item.confidence)}) < 3
             /\ Len(item.treatments) <= 3
             /\ \A j \in 1..Len(results.combined_recommendations) :
                  j # i => results.combined_recommendations[j].pest_disease # item.pest_disease
      /\ results.confidence_summary.has # {} <=> keys # {}
      /\ keys # {} =>
           /\ \E k \in keys : results.confidence_summary.highest_confidence = BestOf(given, k)
           /\ \A k \in keys :
                Geq(results.confidence_summary.highest_confidence, BestOf(given, k))
           /\ results.confidence_summary.total_matches = Cardinality(keys)
           /\ results.confidence_summary.high_confidence_matches =
                Cardinality({k \in keys : Geq(BestOf(given, k), <<8, 10>>)})

\* C31: get_comprehensive_analysis searches names with min_confidence 0.3 and,
\* only if symptoms are given, symptoms with min_confidence 0.2;
\* combined_recommendations has at most 3 items, each for a distinct key among
\* the 3 highest-confidence deduplicated matches and each with at most 3
\* treatments; confidence_summary is filled exactly when there is a
\* deduplicated match, highest_confidence being the maximum, total_matches the
\* number of distinct keys and high_confidence_matches the number of keys with
\* confidence >= 0.8.
TopThreeOfBothSearches ==
  op = "get_comprehensive_analysis" /\ pc = "done" =>
    AnalysisAsStated(
      analysis,
      search_by_name(database, args.query, NoCategory, <<3, 10>>),
      IF args.symptoms = <<>> THEN <<>>
      ELSE search_by_symptoms(database, args.symptoms, args.crop_type, <<2, 10>>).matches)

\* all six keys matched, scab by name with confidence below 0.4 and by
\* symptoms with confidence below 0.3, and an entry of four treatments is
\* recommended
FourthMatchLeftOutWitness ==
  /\ op = "get_comprehensive_analysis"
  /\ pc = "done"
  /\ args.symptoms # <<>>
  /\ analysis.confidence_summary.total_matches = 6
  /\ \E found \in {search_by_name(database, args.query, NoCategory, <<3, 10>>)} :
       \E i \in 1..Len(found) :
         found[i].key = "scab" /\ ~Geq(found[i].confidence, <<4, 10>>)
  /\ \E i \in 1..Len(analysis.symptom_matches) :
       /\ analysis.symptom_matches[i].key = "scab"
       /\ ~Geq(analysis.symptom_matches[i].confidence, <<3, 10>>)
  /\ \E i \in 1..Len(analysis.combined_recommendations) :
       /\ analysis.combined_recommendations[i].pest_disease = "aphids"
       /\ Len(analysis.combined_recommendations[i].treatments) = 3
       /\ Len(AllItems(database)[1].entry.treatments) = 4

(***************************************************************************)
(* _find_local_match on every knowledge base and name.                     *)
(***************************************************************************)
ApiNames == Queries \cup {Null}

\* None or empty, and three scientific names
ScientificNames == {<<>>, <<"b", "a">>, <<"A", "a">>, <<"a", " ">>}

FindLocalMatch ==
  /\ pc = "idle"
  /\ \E api_name \in ApiNames, scientific_name \in ScientificNames :
       /\ lookup_request' = [api_name |-> api_name, scientific_name |-> scientific_name]
       /\ local_match' = _find_local_match(database, api_name, scientific_name)
  /\ pc' = "done"
  /\ op' = "_find_local_match"
  /\ UNCHANGED <<identify_vars, predict_vars, parse_vars, cache_vars, singleton_vars, concurrent_vars, all_matches, database_file,
                 analysis, client_vars, database, args, matches, recs, primary_client,
                 api_result, fallback_result, lookup_fails, collected, result,
                 primary_calls, fallback_calls, response>>

InitLocalMatch ==
  /\ database_file = "valid"
  /\ database \in Databases
  /\ primary_client = FALSE
  /\ FreshClient
  /\ Idle
  /\ ModuleFresh
  /\ NoConcurrentCalls
  /\ all_matches = <<>>
  /\ Optimized
  /\ NoPrediction

NextLocalMatch == FindLocalMatch

SpecLocalMatch == InitLocalMatch /\ [][NextLocalMatch]_vars

\* the entry is that of a result of the greatest confidence
EntryOfBest(entry, results) ==
  \E i \in 1..Len(results) :
    /\ results[i].entry = entry
    /\ \A j \in 1..Len(results) : Geq(results[i].confidence, results[j].confidence)

\* C32: _find_local_match searches the knowledge base by the API name with
\* min_confidence 0.6 and returns the entry of the highest-confidence result;
\* it searches by the scientific name with min_confidence 0.7 only if the name
\* search returned nothing and a scientific name is present; it returns None
\* when both find nothing or when the lookup raises.
LocalMatchByNameThenScientific ==
  op = "_find_local_match" =>
    IF lookup_request.api_name = Null
    THEN ~local_match.found
    ELSE \E by_name \in {search_by_name(database, lookup_request.api_name,
                                        NoCategory, <<6, 10>>)} :
           IF by_name # <<>>
           THEN local_match.found /\ EntryOfBest(local_match.entry, by_name)
           ELSE IF lookup_request.scientific_name = <<>>
                THEN ~local_match.found
                ELSE \E by_scientific \in {search_by_name(
                                             database, lookup_request.scientific_name,
                                             NoCategory, <<7, 10>>)} :
                       IF by_scientific # <<>>
                       THEN /\ local_match.found
                            /\ EntryOfBest(local_match.entry, by_scientific)
                       ELSE ~local_match.found

\* the name search found two entries and the scientific name would have found
\* the other one first
NameBeforeScientificWitness ==
  /\ op = "_find_local_match"
  /\ local_match.found
  /\ lookup_request.api_name # Null
  /\ lookup_request.scientific_name # <<>>
  /\ \E by_name \in {search_by_name(database, lookup_request.api_name,
                                    NoCategory, <<6, 10>>)} :
       \E by_scientific \in {search_by_name(database, lookup_request.scientific_name,
                                            NoCategory, <<7, 10>>)} :
         /\ Len(by_name) = 2
         /\ Gt(by_name[1].confidence, by_name[2].confidence)
         /\ by_scientific # <<>>
         /\ by_scientific[1].entry # local_match.entry

(***************************************************************************)
(* _parse_plant_id_suggestions on lists of up to four suggestions.         *)
(***************************************************************************)
\* a finding whose "details" is null
BrokenFinding ==
  [NoDisease EXCEPT !.has = {"name", "probability", "details"}, !.nulls = {"details"},
     !.name = <<"a", "b">>, !.probability = <<7, 10>>]

\* suggestions with one finding, with three, with a finding that cannot be
\* parsed after one that can, with "disease": null, and health assessments with
\* is_healthy 0.3, 0.8, 0.5 and without a probability
ParsePool ==
  << SuggestionPool[1],
     SuggestionPool[2],
     [NoSuggestion EXCEPT !.has = {"disease"}, !.disease = <<DiseasePool[3], BrokenFinding>>],
     [NoSuggestion EXCEPT !.has = {"disease"}, !.nulls = {"disease"}],
     SuggestionPool[4],
     SuggestionPool[5],
     [NoSuggestion EXCEPT !.has = {"plant_health_assessment", "is_healthy"},
        !.is_healthy = <<5, 10>>],
     [NoSuggestion EXCEPT !.has = {"plant_health_assessment"}] >>

MaxParsed == 4

ParseInputs == SeqsOver(ParsePool, MaxParsed)

InitParse ==
  /\ database_file = "valid"
  /\ database = Combined(<<>>)
  /\ primary_client = TRUE
  /\ FreshClient
  /\ Idle
  /\ NoLocalMatchCall
  /\ NoSoilCalls
  /\ NoService
  /\ suggestions_given \in ParseInputs
  /\ parsed = <<>>
  /\ NoConcurrentCalls
  /\ all_matches = <<>>
  /\ Optimized
  /\ NoPrediction

ParsePlantIdSuggestions ==
  /\ pc = "idle"
  /\ pc' = "done"
  /\ op' = "_parse_plant_id_suggestions"
  /\ parsed' = _parse_plant_id_suggestions(suggestions_given)
  /\ UNCHANGED <<identify_vars, predict_vars, find_vars, cache_vars, singleton_vars, suggestions_given,
                 concurrent_vars,
                 all_matches, database_file, analysis, client_vars, database, args,
                 matches, recs, primary_client, api_result, fallback_result,
                 lookup_fails, collected, result, primary_calls, fallback_calls,
                 response>>

NextParse == ParsePlantIdSuggestions

SpecParse == InitParse /\ [][NextParse]_vars

\* the suggestion raises while it is parsed: "disease" is null, or one of its
\* first two findings cannot be parsed
CannotBeParsed(suggestion) ==
  \/ "disease" \in suggestion.nulls
  \/ /\ "disease" \in suggestion.has
     /\ \E i \in 1..Len(suggestion.disease) : i <= 2 /\ DiseaseRaises(suggestion.disease[i])

\* what a suggestion that can be parsed gives: its first two findings in order,
\* or the health match
MatchesOfParsed(suggestion) ==
  IF "disease" \in suggestion.has
  THEN [i \in 1..(IF Len(suggestion.disease) < 2 THEN Len(suggestion.disease) ELSE 2) |->
          DiseaseMatch(suggestion.disease[i])]
  ELSE IF "plant_health_assessment" \in suggestion.has
          /\ ~Geq(Get(suggestion, "is_healthy", Zero), <<1, 2>>)
       THEN <<HealthMatch(suggestion)>>
       ELSE <<>>

RECURSIVE SkippingUnparsed(_)
SkippingUnparsed(suggestions) ==
  IF suggestions = <<>> THEN <<>>
  ELSE (IF CannotBeParsed(Head(suggestions)) THEN <<>> ELSE MatchesOfParsed(Head(suggestions)))
       \o SkippingUnparsed(Tail(suggestions))

FirstThree(suggestions) ==
  [i \in 1..(IF Len(suggestions) < 3 THEN Len(suggestions) ELSE 3) |-> suggestions[i]]

\* C33 as stated: _parse_plant_id_suggestions reads only the first 3
\* suggestions and at most the first 2 disease findings of each, so it returns
\* at most 6 matches, in suggestion order then finding order; a suggestion that
\* cannot be parsed is skipped and the matches of the other suggestions are as
\* without it.
UnparsedSuggestionSkipped ==
  op = "_parse_plant_id_suggestions" =>
    /\ Len(parsed) <= 6
    /\ parsed = SkippingUnparsed(FirstThree(suggestions_given))

\* the same for lists in which no suggestion has a finding that can be parsed
\* before one that cannot
TopThreeTopTwoParsed ==
  (op = "_parse_plant_id_suggestions"
     /\ \A i \in 1..Len(suggestions_given) :
          CannotBeParsed(suggestions_given[i]) =>
            "disease" \in suggestions_given[i].nulls) =>
    /\ Len(parsed) <= 6
    /\ parsed = SkippingUnparsed(FirstThree(suggestions_given))

HealthAssessmentOnly(suggestion) ==
  /\ "disease" \notin suggestion.has
  /\ "plant_health_assessment" \in suggestion.has

\* the probabilities the statement can be read with: the one the assessment
\* gives, any one when it gives none
ProbabilitiesOf(suggestion) ==
  IF "is_healthy" \in suggestion.has THEN {suggestion.is_healthy}
  ELSE {<<n, 10>> : n \in 0..10}

\* C34 as stated: a health-assessment-only response whose is_healthy
\* probability p is below 0.5 yields a single generic health-issue match with
\* confidence exactly 1 - p, and one whose p is >= 0.5 yields no match, also
\* for a response that omits the probability.
HealthMatchIsOneMinusP ==
  (op = "_parse_plant_id_suggestions"
     /\ Len(suggestions_given) = 1
     /\ HealthAssessmentOnly(suggestions_given[1])) =>
    \E p \in ProbabilitiesOf(suggestions_given[1]) :
      IF Geq(p, <<1, 2>>)
      THEN parsed = <<>>
      ELSE /\ Len(parsed) = 1
           /\ parsed[1].name = PlantHealthIssueDetected
           /\ parsed[1].category = "health_issue"
           /\ Eq(parsed[1].confidence, <<p[2] - p[1], p[2]>>)

\* the same for the responses that give the probability
HealthMatchWhenProbabilityGiven ==
  (op = "_parse_plant_id_suggestions"
     /\ Len(suggestions_given) = 1
     /\ HealthAssessmentOnly(suggestions_given[1])
     /\ "is_healthy" \in suggestions_given[1].has) =>
    \E p \in ProbabilitiesOf(suggestions_given[1]) :
      IF Geq(p, <<1, 2>>)
      THEN parsed = <<>>
      ELSE /\ Len(parsed) = 1
           /\ parsed[1].name = PlantHealthIssueDetected
           /\ parsed[1].category = "health_issue"
           /\ Eq(parsed[1].confidence, <<p[2] - p[1], p[2]>>)

(***************************************************************************)
(* The memoized soil lookups while the loaded soil data changes.           *)
(***************************************************************************)
\* functools.lru_cache: the value cached for the arguments, else the value the
\* function computes; the caches hold far fewer entries than their maxsize
CachedOr(cache, key, computed) ==
  IF \E pair \in cache : pair.key = key
  THEN (CHOOSE pair \in cache : pair.key = key).value
  ELSE computed

Cache(cache, key, value) ==
  IF \E pair \in cache : pair.key = key THEN cache
  ELSE cache \cup {[key |-> key, value |-> value]}

\* no soil data, and two soil_types.json contents that differ in the record of
\* "sandy" and in the matrix
LoadedSoilData ==
  {NoSoilData,
   [has |-> {"soil_types", "compatibility_matrix"},
    soil_types |-> <<[key |-> "sandy",
                      value |-> [has |-> {"amendments", "irrigation_guidance"},
                                 amendments |-> <<Compost>>,
                                 irrigation_guidance |-> DailyWatering]]>>,
    compatibility_matrix |->
      <<[key |-> "wheat",
         value |-> <<[key |-> "sandy",
                      value |-> [score |-> <<3, 5>>,
                                 warnings |-> <<"May need fertilization">>]]>>]>>],
   [has |-> {"soil_types", "compatibility_matrix"},
    soil_types |-> <<[key |-> "clay",
                      value |-> [has |-> {"amendments", "irrigation_guidance"},
                                 amendments |-> <<>>,
                                 irrigation_guidance |-> DailyWatering]]>>,
    compatibility_matrix |->
      <<[key |-> "wheat",
         value |-> <<[key |-> "clay",
                      value |-> [score |-> <<4, 5>>, warnings |-> <<>>]]>>]>>]}

SoilTypeArguments == {"sandy", "invalid"}

CropArguments == {"Wheat", "unknown"}

\* get_soil_type_data(soil_type) called through its cache
GetSoilTypeData ==
  \E soil_type \in SoilTypeArguments :
    \E returned \in {CachedOr(lru_cache.get_soil_type_data, soil_type,
                              get_soil_type_data(soil_types_data, soil_type))} :
      /\ soil_call' = [function |-> "get_soil_type_data", crop_name |-> "",
                       soil_type |-> soil_type, returned |-> returned]
      /\ lru_cache' = [lru_cache EXCEPT !.get_soil_type_data = Cache(@, soil_type, returned)]
      /\ UNCHANGED <<identify_vars, predict_vars, find_vars, parse_vars, singleton_vars, backend_vars>>

\* get_compatibility_score(crop_name, soil_type) called through its cache
GetCompatibilityScore ==
  \E crop_name \in CropArguments, soil_type \in SoilTypeArguments :
    \E returned \in {CachedOr(lru_cache.get_compatibility_score, <<crop_name, soil_type>>,
                              get_compatibility_score(soil_types_data, crop_name,
                                                      soil_type))} :
      /\ soil_call' = [function |-> "get_compatibility_score", crop_name |-> crop_name,
                       soil_type |-> soil_type, returned |-> returned]
      /\ lru_cache' = [lru_cache EXCEPT
                         !.get_compatibility_score =
                           Cache(@, <<crop_name, soil_type>>, returned)]
      /\ UNCHANGED <<identify_vars, predict_vars, find_vars, parse_vars, singleton_vars, backend_vars>>

\* main.soil_types_data is replaced, as the tests do with patch
LoadSoilData ==
  \E data \in LoadedSoilData \ {soil_types_data} :
    /\ soil_types_data' = data
    /\ soil_call' = NoSoilCall
    /\ UNCHANGED <<lru_cache, predict_request, predict_response, identify_vars, find_vars,
                   parse_vars, singleton_vars, backend_vars>>

InitSoilCache ==
  /\ database = Separate(<<>>)
  /\ database_file = "valid"
  /\ FreshClient
  /\ primary_client = FALSE
  /\ Idle
  /\ ModuleFresh
  /\ NoConcurrentCalls
  /\ all_matches = <<>>
  /\ Optimized
  /\ soil_types_data \in LoadedSoilData
  /\ predict_request = NoPredictRequest
  /\ predict_response = NoPredictResponse

NextSoilCache ==
  \/ GetSoilTypeData
  \/ GetCompatibilityScore
  \/ LoadSoilData

SpecSoilCache == InitSoilCache /\ [][NextSoilCache]_vars

\* C35 as stated: after any sequence of earlier calls and changes of the loaded
\* soil data, get_soil_type_data(t) and get_compatibility_score(c, t) return
\* what the currently loaded soil data holds for their arguments;
\* get_soil_type_data returns {} whenever no soil data is loaded or the soil
\* type is unknown.
SoilMemoizationTransparent ==
  /\ soil_call.function = "get_soil_type_data" =>
       /\ soil_call.returned = get_soil_type_data(soil_types_data, soil_call.soil_type)
       /\ (soil_types_data = NoSoilData
             \/ soil_call.soil_type \notin Keys(soil_types_data.soil_types)) =>
            soil_call.returned = NoObject
  /\ soil_call.function = "get_compatibility_score" =>
       soil_call.returned =
         get_compatibility_score(soil_types_data, soil_call.crop_name, soil_call.soil_type)

\* the same while the loaded soil data is what it was at import
SoilMemoizationTransparentUntilReload ==
  (\A pair \in lru_cache.get_soil_type_data :
     pair.value = get_soil_type_data(soil_types_data, pair.key))
  /\ (\A pair \in lru_cache.get_compatibility_score :
        pair.value = get_compatibility_score(soil_types_data, pair.key[1], pair.key[2]))
  => SoilMemoizationTransparent

(***************************************************************************)
(* Properties of the confidence level.                                     *)
(***************************************************************************)
\* the probabilities of the disease findings of the first suggestion
FirstSuggestionProbabilities(suggestions) ==
  IF suggestions = <<>> \/ "disease" \notin suggestions[1].has THEN {}
  ELSE {Get(suggestions[1].disease[i], "probability", Zero) :
          i \in 1..Len(suggestions[1].disease)}

LevelAsStated(suggestions) ==
  IF \E p \in FirstSuggestionProbabilities(suggestions) : Geq(p, <<8, 10>>) THEN "high"
  ELSE IF \E p \in FirstSuggestionProbabilities(suggestions) : Geq(p, <<5, 10>>)
       THEN "medium"
       ELSE "low"

\* C36: for a successful primary identification, confidence_level is "high"
\* when the largest disease probability of the first suggestion is >= 0.8,
\* "medium" when it is >= 0.5 and below 0.8, and "low" otherwise, also without
\* suggestions or without disease findings in the first suggestion; the
\* orchestrator returns that level unchanged.
LevelOfFirstSuggestionReturned ==
  api_result.kind = "success" =>
    /\ api_result.confidence_level = LevelAsStated(api_result.suggestions)
    /\ result.confidence_level = LevelAsStated(api_result.suggestions)

\* the first suggestion has three findings, the third with the largest
\* probability, which is 0.5; the second suggestion would give another level
ThirdFindingDecidesWitness ==
  /\ api_result.kind = "success"
  /\ pc = "returned"
  /\ Len(api_result.suggestions) = 2
  /\ Len(api_result.suggestions[1].disease) = 3
  /\ Eq(api_result.suggestions[1].disease[3].probability, <<5, 10>>)
  /\ ~Geq(api_result.suggestions[1].disease[1].probability, <<5, 10>>)
  /\ result.confidence_level = "medium"
  /\ LevelAsStated(Tail(api_result.suggestions)) = "high"

(***************************************************************************)
(* Properties of the limiter over whole calls.                             *)
(***************************************************************************)
\* C37 as stated: after any sequence of identify_disease calls on one
\* PlantIdClient, calls that retry included, requests_made never exceeds
\* max_requests_per_minute and daily_requests never exceeds
\* max_requests_per_day.
CountersWithinLimits ==
  /\ rate_limit.requests_made <= max_requests_per_minute
  /\ rate_limit.daily_requests <= max_requests_per_day

\* what the check before the retry loop does give: the first request of an
\* admitted call is sent with both counters below their limits
FirstRequestBelowLimits ==
  (pc = "posting" /\ retry_count = 0) =>
    /\ rate_limit.requests_made < max_requests_per_minute
    /\ rate_limit.daily_requests < max_requests_per_day

(***************************************************************************)
(* search_by_symptoms on the empty symptom list.                           *)
(***************************************************************************)
\* C38 as stated: search_by_symptoms returns a list and never fails for
\* every symptom list, the empty list included, on every knowledge base;
\* for the empty symptom list no entry is reported as a match.
SymptomSearchNeverFails ==
  op = "search_by_symptoms" =>
    /\ pc = "done"
    /\ (args.symptoms = <<>> => matches = <<>>)

\* the part that does hold: a search with at least one symptom returns
SymptomSearchOfSomeSymptomsReturns ==
  (op = "search_by_symptoms" /\ args.symptoms # <<>>) => pc = "done"

\* and the other part of the statement on its own: an empty symptom list that
\* does not raise (no visited entry has symptoms) still reports the entries
\* without symptoms when min_confidence is 0
EmptySymptomListMatchesNothing ==
  (op = "search_by_symptoms" /\ pc = "done" /\ args.symptoms = <<>>) => matches = <<>>

(***************************************************************************)
(* get_disease_identification_service: the module-level singleton.         *)
(* The function has no lock.  The coroutine of /identify runs on the event *)
(* loop thread and the def handlers on threads of the thread pool, so the  *)
(* test of the global, the construction, the assignment and the return of  *)
(* one caller interleave with those of the others.                         *)
(***************************************************************************)
\* what a step inside get_disease_identification_service leaves alone
outside_singleton ==
  <<identify_vars, predict_vars, find_vars, parse_vars, cache_vars, backend_vars>>

\* `if _disease_service_instance is None:`
TestInstance(h) ==
  /\ handlers[h].pc = "idle"
  /\ handlers' = [handlers EXCEPT
                    ![h] = [NoHandler EXCEPT
                              !.pc = IF _disease_service_instance = None
                                     THEN "constructing" ELSE "returning"]]
  /\ UNCHANGED <<_disease_service_instance, constructed, outside_singleton>>

\* `DiseaseIdentificationService()`, the right-hand side of the assignment
ConstructService(h) ==
  /\ handlers[h].pc = "constructing"
  /\ constructed' = constructed + 1
  /\ handlers' = [handlers EXCEPT ![h].pc = "assigning",
                                  ![h].service = DiseaseIdentificationService(constructed + 1)]
  /\ UNCHANGED <<_disease_service_instance, outside_singleton>>

\* `_disease_service_instance = ...`
AssignInstance(h) ==
  /\ handlers[h].pc = "assigning"
  /\ _disease_service_instance' = handlers[h].service
  /\ handlers' = [handlers EXCEPT ![h].pc = "returning"]
  /\ UNCHANGED <<constructed, outside_singleton>>

\* `return _disease_service_instance`, bound to disease_service in the handler
ReturnInstance(h) ==
  /\ handlers[h].pc = "returning"
  /\ handlers' = [handlers EXCEPT ![h].pc = "returned",
                                  ![h].disease_service = _disease_service_instance]
  /\ UNCHANGED <<_disease_service_instance, constructed, outside_singleton>>

\* the handler has answered its request; the next request runs it again
HandlerDone(h) ==
  /\ handlers[h].pc = "returned"
  /\ handlers' = [handlers EXCEPT ![h].pc = "idle"]
  /\ UNCHANGED <<_disease_service_instance, constructed, outside_singleton>>

GetDiseaseIdentificationService(h) ==
  \/ TestInstance(h)
  \/ ConstructService(h)
  \/ AssignInstance(h)
  \/ ReturnInstance(h)

InitSingleton ==
  /\ database = Separate(<<>>)
  /\ database_file = "valid"
  /\ FreshClient
  /\ primary_client = FALSE
  /\ Idle
  /\ ModuleFresh
  /\ NoConcurrentCalls
  /\ all_matches = <<>>
  /\ Optimized
  /\ NoPrediction

NextSingleton ==
  \E h \in Handlers : GetDiseaseIdentificationService(h) \/ HandlerDone(h)

SpecSingleton == InitSingleton /\ [][NextSingleton]_vars

\* C39 as stated: get_disease_identification_service constructs the
\* DiseaseIdentificationService at most once per process and returns the same
\* instance on every call, also when the first calls arrive concurrently.
OneServiceInstance ==
  /\ constructed <= 1
  /\ \A g, h \in Handlers :
       (handlers[g].disease_service # None /\ handlers[h].disease_service # None)
         => handlers[g].disease_service = handlers[h].disease_service

\* what holds without a lock: once a call has set the global, every call that
\* starts afterwards returns an instance without constructing one
NoConstructionAfterInstanceSeen ==
  [][\A h \in Handlers :
       (handlers[h].pc = "idle" /\ _disease_service_instance # None
        /\ handlers'[h].pc # "idle")
         => handlers'[h].pc = "returning"]_vars

====
